---- MODULE Spec2Model ----
(***************************************************************************)
(* Krishi Connect: the request-authentication and data-access layer.       *)
(*   flaskserver/app_postgresql.py            routes, jwt_required, tokens *)
(*   flaskserver/postgresql_implementation.py services, schema, pool       *)
(* The store is PostgreSQL at its default isolation level (READ COMMITTED).*)
(* A handler with one write statement is one step; add_irrigation_record   *)
(* and create_user are split at their statements so that concurrent        *)
(* requests interleave between them.                                       *)
(***************************************************************************)
EXTENDS Integers, Sequences, FiniteSets, TLC

\* ------------------------------------------------------------------ bounds
MaxUsers  == 2      \* user rows (ids 1..MaxUsers)
MaxFields == 2      \* field rows
MaxCrops  == 1      \* crop rows
MaxIrr    == 2      \* irrigation record ids
MaxClaims == 2      \* climate damage claims
MaxReq    == 2      \* requests holding an open transaction at once
MaxTime   == 8      \* clock horizon, in days
MaxTokens == 2      \* distinct tokens issued
ClaimDays == 1      \* days the clock advances while claims are filed
MaxOps    == 22     \* units of work inside get_connection at once
MaxUnits  == 3      \* units of work followed through their connection
MaxConns  == 5      \* connections the pool opens (ids 1..MaxConns)

\* --------------------------------------------------------- program constants
TokenDays    == 7   \* timedelta(days=7)
DefaultLimit == 50  \* request.args.get('limit', 50)
minconn      == 2   \* SimpleConnectionPool(minconn=2, ...)
maxconn      == 20  \* SimpleConnectionPool(..., maxconn=20, ...)

SECRET_KEY == "your-secret-key-here"

\* ------------------------------------------------------------------ inputs
Emails     == {"a@x.com", "b@x.com"}
Passwords  == {"pw1", "pw2"}
Salts      == {"kX3f", "Qz81"}           \* salt drawn by generate_password_hash
UserTypes  == {"farmer", "government"}
Missing    == ""                         \* an absent or falsy JSON member
NoId       == 0                          \* SQL NULL / None where an id is expected
Suffixes   == {"1A2B3C4D", "9F8E7D6C"}   \* str(uuid.uuid4())[:8].upper()
Amounts    == {-1, 0, 1, 2}              \* amount_mm values a body can carry
Severities == {"mild", "moderate", "severe", "complete"}
Statuses   == {"active", "inactive", "deleted"}

UserIds  == 1..MaxUsers
FieldIds == 1..MaxFields
CropIds  == 1..MaxCrops
IrrIds   == 1..MaxIrr
ReqIds   == 1..MaxReq

VARIABLES
    users,      \* committed rows of table users
    fields,     \* committed rows of table fields
    crops,      \* committed rows of table crops
    irrigation, \* committed rows of table irrigation_records
    claims,     \* committed rows of table climate_damage_claims
    reqs,       \* open transactions: request slot -> position and pending writes
    tokens,     \* tokens issued so far by generate_jwt_token
    now,        \* the clock, in days
    resp,       \* the last response sent
    acked,      \* history: crop id -> sum of the amounts acknowledged as recorded
    registered, \* history: the registrations acknowledged as successful
    pool,       \* db_config.connection_pool and the units of work using it
    conns,      \* the pool's connections one by one, and who holds which
    is_connected, \* db_config.is_connected
    reachable,  \* the store answers round trips
    schema,     \* what the schema script has created in the store
    debug       \* app.debug

store == <<users, fields, crops, irrigation, claims>>
infra == <<pool, conns, is_connected, reachable, schema, debug>>
vars == <<users, fields, crops, irrigation, claims, reqs, tokens, now, resp,
          acked, registered, pool, conns, is_connected, reachable, schema, debug>>

\* ---------------------------------------------------------------- helpers
RECURSIVE SumAmounts(_)
SumAmounts(S) ==
    IF S = {} THEN 0
    ELSE LET x == CHOOSE y \in S : TRUE IN x.amount_mm + SumAmounts(S \ {x})

Min(S) == CHOOSE x \in S : \A y \in S : x <= y

Max(S) == CHOOSE x \in S : \A y \in S : y <= x

UserById(id)  == CHOOSE u \in users : u.id = id
FieldById(id) == CHOOSE f \in fields : f.id = id
CropById(id)  == CHOOSE c \in crops : c.id = id

\* ------------------------------------------------ werkzeug password hashing
\* generate_password_hash: a salted one-way digest, stored with its salt.
Digest(salt, password) == <<"pbkdf2:sha256", salt, password>>

GeneratePasswordHash(password, salt) ==
    [salt |-> salt, digest |-> Digest(salt, password)]

\* Mutant: the check digests the password without the stored salt.
CheckPasswordHashUnsalted(pwhash, password) ==
    pwhash.digest = Digest(Missing, password)

CheckPasswordHash(pwhash, password) ==
    pwhash.digest = Digest(pwhash.salt, password)

\* --------------------------------------------------------------- JWT tokens
\* HS256 over the payload with the process-wide key.
Sign(key, user_id, user_type, iat, exp) == <<key, user_id, user_type, iat, exp>>

\* A token as sent: the payload, the signature bytes, and pad, the two unused
\* low bits of the signature's last base64url character (zero as encoded).
GenerateJwtToken(user_id, user_type, t) ==
    [user_id   |-> user_id,
     user_type |-> user_type,
     iat       |-> t,
     exp       |-> t + TokenDays,
     sig       |-> Sign(SECRET_KEY, user_id, user_type, t, t + TokenDays),
     pad       |-> 0]

NoToken == [user_id |-> 0, user_type |-> Missing, iat |-> 0, exp |-> 0,
            sig |-> <<>>, pad |-> 0]

\* One byte of a token altered: in the payload (any one claim), in the
\* signature bytes, or in the unused bits of the last signature character.
TamperModes == {"user_id", "user_type", "exp", "sig", "pad"}

OtherType(ut) == IF ut = "farmer" THEN "government" ELSE "farmer"

Tamper(tok, mode) ==
    CASE mode = "intact"    -> tok
      [] mode = "user_id"   -> [tok EXCEPT !.user_id = (tok.user_id % MaxUsers) + 1]
      [] mode = "user_type" -> [tok EXCEPT !.user_type = OtherType(tok.user_type)]
      [] mode = "exp"       -> [tok EXCEPT !.exp = tok.exp + 1]
      [] mode = "sig"       -> [tok EXCEPT !.sig = <<"corrupt">>]
      [] mode = "pad"       -> [tok EXCEPT !.pad = 1]

\* base64url_decode of the signature segment: 43 characters carry 258 bits,
\* the decoder keeps the 256 signature bits and drops the two unused ones.
Base64UrlDecodeSignature(tok) == tok.sig

SignatureValid(tok) ==
    Base64UrlDecodeSignature(tok)
        = Sign(SECRET_KEY, tok.user_id, tok.user_type, tok.iat, tok.exp)

\* Mutant: decode with the expiry check switched off.
JwtDecodeNoExpiry(tok, t, edge) ==
    IF ~SignatureValid(tok) THEN "INVALID_TOKEN" ELSE "OK"

\* jwt.decode at clock t.  edge is the library's verdict at the expiry
\* instant itself (exp < now in PyJWT 1.x, exp <= now in 2.x).
JwtDecode(tok, t, edge) ==
    IF ~SignatureValid(tok) THEN "INVALID_TOKEN"
    ELSE IF tok.exp < t \/ (tok.exp = t /\ edge) THEN "TOKEN_EXPIRED"
    ELSE "OK"

\* What a client can put in the Authorization header: nothing, or a token it
\* was issued (or text that is no token), intact or with one byte altered, with or
\* without the "Bearer " prefix.
Presented ==
    {[present |-> FALSE, bearer |-> FALSE, mode |-> "intact", orig |-> NoToken]}
    \cup [present : {TRUE}, bearer : BOOLEAN, mode : {"intact"},
          orig : tokens \cup {NoToken}]
    \cup [present : {TRUE}, bearer : BOOLEAN, mode : TamperModes, orig : tokens]

\* token[7:] when the header starts with "Bearer ", the header itself otherwise.
StripBearer(p) == Tamper(p.orig, p.mode)

\* Mutant: the decorator looks the token's user up and refuses the token of
\* a user who is not there or not active.
JwtRequiredActiveUser(p, t, edge) ==
    IF ~p.present THEN
        [code |-> "NO_TOKEN", user_id |-> NoId, user_type |-> Missing]
    ELSE LET tok == StripBearer(p)
             c   == JwtDecode(tok, t, edge) IN
        IF c = "OK" /\ \E u \in users : u.id = tok.user_id /\ u.is_active
        THEN [code |-> "OK", user_id |-> tok.user_id, user_type |-> tok.user_type]
        ELSE [code |-> IF c = "OK" THEN "INVALID_TOKEN" ELSE c,
              user_id |-> NoId, user_type |-> Missing]

\* jwt_required: the rejection code, or "OK" with the decoded identity.
JwtRequired(p, t, edge) ==
    IF ~p.present THEN
        [code |-> "NO_TOKEN", user_id |-> NoId, user_type |-> Missing]
    ELSE LET tok == StripBearer(p)
             c   == JwtDecode(tok, t, edge) IN
        IF c = "OK"
        THEN [code |-> "OK", user_id |-> tok.user_id, user_type |-> tok.user_type]
        ELSE [code |-> c, user_id |-> NoId, user_type |-> Missing]

\* --------------------------------------------------------------- responses
\* create_error_response / create_success_response / the jwt_required bodies,
\* with what the request carried.
NoResp ==
    [op |-> "none", code |-> "none", status |-> 0, caller |-> NoId,
     role |-> Missing, present |-> FALSE, mode |-> "intact", tok |-> NoToken,
     when |-> "none", at |-> 0, email |-> Missing, password |-> Missing, target |-> NoId,
     ref |-> NoId, items |-> <<>>, issued |-> NoToken, claim_ref |-> <<>>,
     up |-> TRUE, invalid |-> FALSE,
     error |-> {}, message |-> <<>>, details |-> <<>>,
     search |-> <<>>, max_amount |-> [given |-> FALSE, value |-> 0],
     coordinates |-> [kind |-> "none", list |-> <<>>, text |-> <<>>],
     limit |-> "none", field_id |-> NoId, extra |-> FALSE]

\* register and login answer at the time they issue their token.
Public(op) == [NoResp EXCEPT !.op = op, !.at = now]

\* Where the clock stands against the expiry of the token a header was made of.
When(p) ==
    IF ~p.present \/ p.orig = NoToken THEN "none"
    ELSE IF now < p.orig.exp THEN "before"
    ELSE IF now = p.orig.exp THEN "at"
    ELSE "after"

\* The response of a protected route to header p, before the handler ran.
Protected(op, p, auth) ==
    [NoResp EXCEPT !.op = op, !.present = p.present, !.mode = p.mode,
                   !.tok = p.orig, !.when = When(p),
                   !.caller = auth.user_id, !.role = auth.user_type]

\* create_error_response (status 400 and above): the error object has code,
\* message, details and timestamp.  create_success_response has none.
ErrorKeys == {"code", "message", "details", "timestamp"}

Reply(r0, code, status) ==
    [r0 EXCEPT !.code = code, !.status = status,
               !.error = IF status >= 400 THEN ErrorKeys ELSE {}]

\* The 401 bodies jwt_required builds itself: error has code and message.
Reject(r0, code) ==
    [r0 EXCEPT !.code = code, !.status = 401, !.error = {"code", "message"}]

\* str(e) of the exception psycopg2 raised.
StoreErrorText == "psycopg2: <text of the store's error>"

\* The prefix the service method puts before str(e) when it re-raises.
ServiceText(code) ==
    CASE code = "REGISTRATION_FAILED"   -> "Error creating user: "
      [] code = "LOGIN_FAILED"          -> "Authentication error: "
      [] code = "CREATE_FIELD_FAILED"   -> "Error creating field: "
      [] code = "GET_FIELDS_FAILED"     -> "Error fetching fields: "
      [] code = "CREATE_CROP_FAILED"    -> "Error creating crop lifecycle: "
      [] code = "ADD_IRRIGATION_FAILED" -> "Error adding irrigation record: "
      [] code = "CREATE_CLAIM_FAILED"   -> "Error creating climate claim: "

\* The route's except: create_error_response(code, str(e), 500), e being the
\* exception the service re-raised around the store's.
StoreFailure(r0, code) ==
    [Reply(r0, code, 500) EXCEPT !.message = <<ServiceText(code), StoreErrorText>>]

\* ------------------------------------------------------------ transactions
NoUser == [id |-> NoId, email |-> Missing,
           password_hash |-> [salt |-> Missing, digest |-> <<>>],
           user_type |-> Missing, is_active |-> FALSE, last_login |-> -1]

Idle == [pc |-> "idle", op |-> "none", r0 |-> NoResp,
         urow |-> NoUser,
         irow |-> [id |-> NoId, crop_id |-> NoId, amount_mm |-> 0],
         total |-> 0]

Open(op) == {r \in ReqIds : reqs[r].pc # "idle" /\ reqs[r].op = op}

\* ------------------------------------------------ pool and schema at start
\* SimpleConnectionPool.__init__ opens minconn connections; none is in use.
\*   idle        len(_pool)
\*   used        len(_used), the connections checked out
\*   connecting  units of work inside _connect (past the capacity check)
\*   held        units of work between getconn and putconn
\*   last        what the pool did last
NewPool ==
    [idle |-> minconn, used |-> 0, connecting |-> 0, held |-> 0, last |-> "none"]

\* The same pool seen connection by connection.  connect() has opened minconn
\* connections and used one for its SELECT 1 test (key 1), then put it back.
\*   pooled   _pool, a list used as a stack (pop takes the last)
\*   used     _used, key -> connection
\*   rused    _rused, connection -> key
\*   keys     _keys, the counter behind _getkey
\*   tx       connection -> transaction status and the writes pending in it
\*   durable  the units of work whose writes a commit made durable
\*   unit     unit of work -> its position in get_connection and its body
ConnIds == 1..MaxConns
Units   == 1..MaxUnits
NoConn  == 0

NewUnit ==
    [pc |-> "new", k |-> 0, key |-> 0, conn |-> NoConn, wrote |-> FALSE,
     outcome |-> "none"]

NewConns ==
    [pooled  |-> [i \in 1..minconn |-> i],
     used    |-> {},
     rused   |-> {},
     keys    |-> 1,
     tx      |-> [c \in ConnIds |->
                    [status |-> IF c <= minconn THEN "idle" ELSE "unopened",
                     writes |-> {}]],
     durable |-> {},
     unit    |-> [u \in Units |-> NewUnit]]

\* The rows the schema script seeds into government_schemes (scheme_code).
SeedSchemes == {"PMFBY", "WBCIS", "NAIS", "DISASTER_RELIEF", "KISAN_CREDIT"}

\* A database in which the script never ran.
EmptySchema ==
    [tables |-> FALSE, indexes |-> FALSE, function |-> FALSE, triggers |-> FALSE,
     schemes |-> {}]

\* INSERT INTO government_schemes ... ON CONFLICT (scheme_code) DO NOTHING
InsertSeeds(schemes) ==
    schemes \cup {c \in SeedSchemes : c \notin schemes}

\* CREATE TRIGGER (no OR REPLACE, no IF NOT EXISTS): an error when the trigger
\* is there already.
TriggerExists(s) == s.triggers

\* cursor.execute(get_schema_sql()) in one transaction: the statements in
\* order, and the rollback of all of them when one raises.
SchemaSql(s) ==
    LET s1 == [s EXCEPT !.tables = TRUE, !.indexes = TRUE, !.function = TRUE] IN
    IF TriggerExists(s1)
    THEN [ok |-> FALSE, schema |-> s]
    ELSE [ok |-> TRUE,
          schema |-> [s1 EXCEPT !.triggers = TRUE,
                                !.schemes = InsertSeeds(s1.schemes)]]

\* The service has started: init_postgresql_database ran on an empty database.
Init ==
    /\ pool = NewPool
    /\ conns = NewConns
    /\ debug = FALSE
    /\ is_connected = TRUE
    /\ reachable = TRUE
    /\ schema = SchemaSql(EmptySchema).schema
    /\ users = {}
    /\ fields = {}
    /\ crops = {}
    /\ irrigation = {}
    /\ claims = {}
    /\ reqs = [r \in ReqIds |-> Idle]
    /\ tokens = {}
    /\ now = 0
    /\ resp = NoResp
    /\ acked = [c \in CropIds |-> 0]
    /\ registered = {}

\* ------------------------------------------------- POST /api/auth/register
RegisterBodies ==
    [email : Emails \cup {Missing}, password : Passwords \cup {Missing},
     name : {"Asha", Missing}, user_type : UserTypes \cup {"admin", Missing}]

\* Mutant: no uniqueness constraint on users.email.
EmailNeverTaken(email) == FALSE

\* users.email UNIQUE: the INSERT fails when a committed row has the email.
EmailTaken(email) == \E u \in users : u.email = email

\* ... and it waits for an open transaction that inserted the same email.
EmailPending(email) ==
    \E q \in Open("register") : reqs[q].urow.email = email

\* An id is never given twice (uuid_generate_v4), also not after a delete.
FreeUserIds ==
    UserIds \ ({u.id : u \in users} \cup {reqs[q].urow.id : q \in Open("register")}
               \cup {e.id : e \in registered})

\* register up to the INSERT of UserService.create_user.
Register(r, data, salt) ==
    /\ reqs[r].pc = "idle"
    /\ LET r0 == [Public("register") EXCEPT !.email = data.email,
                                            !.password = data.password] IN
       IF data.email = Missing \/ data.password = Missing
          \/ data.name = Missing \/ data.user_type = Missing
       THEN /\ resp' = Reply(r0, "MISSING_FIELD", 400)
            /\ UNCHANGED reqs
       ELSE IF data.user_type \notin UserTypes
       THEN /\ resp' = Reply(r0, "INVALID_USER_TYPE", 400)
            /\ UNCHANGED reqs
       ELSE IF EmailTaken(data.email)
       THEN /\ resp' = Reply(r0, "EMAIL_EXISTS", 409)
            /\ UNCHANGED reqs
       ELSE /\ ~EmailPending(data.email)
            /\ FreeUserIds # {}
            /\ Cardinality(tokens) + Cardinality(Open("register")) < MaxTokens
            /\ reqs' = [reqs EXCEPT ![r] =
                 [Idle EXCEPT !.pc = "inserted", !.op = "register", !.r0 = r0,
                    !.urow = [id |-> Min(FreeUserIds),
                              email |-> data.email,
                              password_hash |-> GeneratePasswordHash(data.password, salt),
                              user_type |-> data.user_type,
                              is_active |-> TRUE,
                              last_login |-> -1]]]
            /\ UNCHANGED resp
    /\ UNCHANGED <<store, tokens, now, acked, registered, infra>>

\* conn.commit() of create_user, then the token and the success response.
RegisterCommit(r) ==
    /\ reqs[r].pc = "inserted"
    /\ reqs[r].op = "register"
    /\ LET u   == reqs[r].urow
           tok == GenerateJwtToken(u.id, u.user_type, now) IN
       /\ users' = users \cup {u}
       /\ tokens' = tokens \cup {tok}
       /\ resp' = [Reply(reqs[r].r0, "OK", 200) EXCEPT
                     !.at = now, !.target = u.id, !.role = u.user_type,
                     !.issued = tok]
       /\ registered' = registered \cup
             {[email |-> u.email, password |-> reqs[r].r0.password,
               id |-> u.id, user_type |-> u.user_type]}
    /\ reqs' = [reqs EXCEPT ![r] = Idle]
    /\ UNCHANGED <<fields, crops, irrigation, claims, now, acked, infra>>

\* ---------------------------------------------------- POST /api/auth/login
LoginBodies ==
    [email : Emails \cup {Missing}, password : Passwords \cup {Missing},
     user_type : UserTypes \cup {Missing}]

\* Mutant: the SELECT without its is_active condition.
AuthenticatedInactiveToo(email, password) ==
    {u \in users : /\ u.email = email
                   /\ CheckPasswordHash(u.password_hash, password)}

\* The SELECT of UserService.authenticate_user and the password check:
\* the rows it accepts (at most one, email being unique).
Authenticated(email, password) ==
    {u \in users : /\ u.email = email
                   /\ u.is_active
                   /\ CheckPasswordHash(u.password_hash, password)}

\* login, with authenticate_user's UPDATE of last_login and its commit.
\* storeOk = FALSE: the store raises inside authenticate_user.
Login(data, storeOk) ==
    LET r0 == [Public("login") EXCEPT !.email = data.email,
                                      !.password = data.password]
        found == Authenticated(data.email, data.password) IN
    /\ IF data.email = Missing \/ data.password = Missing
       THEN /\ resp' = Reply(r0, "MISSING_CREDENTIALS", 400)
            /\ UNCHANGED <<users, tokens>>
       ELSE IF ~storeOk
       THEN /\ resp' = StoreFailure(r0, "LOGIN_FAILED")
            /\ UNCHANGED <<users, tokens>>
       ELSE IF found = {}
       THEN /\ resp' = Reply(r0, "INVALID_CREDENTIALS", 401)
            /\ UNCHANGED <<users, tokens>>
       ELSE LET u   == CHOOSE x \in found : TRUE
                tok == GenerateJwtToken(u.id, u.user_type, now)
                r1  == [r0 EXCEPT !.target = u.id, !.role = u.user_type] IN
            /\ users' = (users \ {u}) \cup {[u EXCEPT !.last_login = now]}
            /\ IF data.user_type # Missing /\ u.user_type # data.user_type
               THEN /\ resp' = Reply(r1, "USER_TYPE_MISMATCH", 403)
                    /\ UNCHANGED tokens
               ELSE /\ tok \in tokens \/ Cardinality(tokens) < MaxTokens
                    /\ tokens' = tokens \cup {tok}
                    /\ resp' = [Reply(r1, "OK", 200) EXCEPT !.issued = tok]
    /\ UNCHANGED <<fields, crops, irrigation, claims, reqs, now, acked, registered, infra>>

\* ------------------------------------------------------- JSON and JSONB
\* A value as Python holds it and as JSON denotes it: a list (here of one-digit
\* numbers, standing for the coordinate pairs) or a string.  Text is a
\* sequence of characters.
PyList(items) == [kind |-> "list", list |-> items, text |-> <<>>]
PyStr(text)   == [kind |-> "str", list |-> <<>>, text |-> text]

\* bool(value): an empty list and an empty string are falsy.
Truthy(v) == v.list # <<>> \/ v.text # <<>>

Digits == <<"0", "1", "2", "3", "4", "5", "6", "7", "8", "9">>

RECURSIVE JoinItems(_)
JoinItems(items) ==
    IF items = <<>> THEN <<>>
    ELSE IF Len(items) = 1 THEN <<Digits[items[1] + 1]>>
    ELSE <<Digits[items[1] + 1], ",", " ">> \o JoinItems(Tail(items))

\* json.dumps: "[1, 2]" for a list, the quoted text for a string (the
\* strings here hold nothing that is escaped).
JsonDumps(v) ==
    IF v.kind = "list"
    THEN <<"[">> \o JoinItems(v.list) \o <<"]">>
    ELSE <<"\"">> \o v.text \o <<"\"">>

NotSpace(c) == c # " "

IsDigit(c) == \E k \in DOMAIN Digits : Digits[k] = c

DigitValue(c) == (CHOOSE k \in DOMAIN Digits : Digits[k] = c) - 1

\* The characters between "[" and "]", spaces dropped, are numbers with
\* commas between them.
IsItems(inner) ==
    \/ inner = <<>>
    \/ /\ Len(inner) % 2 = 1
       /\ \A k \in 1..Len(inner) :
             IF k % 2 = 1 THEN IsDigit(inner[k]) ELSE inner[k] = ","

IsJsonList(t) ==
    /\ Len(t) >= 2
    /\ t[1] = "["
    /\ t[Len(t)] = "]"
    /\ IsItems(SelectSeq(SubSeq(t, 2, Len(t) - 1), NotSpace))

IsJsonString(t) ==
    /\ Len(t) >= 2
    /\ t[1] = "\""
    /\ t[Len(t)] = "\""
    /\ \A k \in 2..(Len(t) - 1) : t[k] # "\""

\* Text that a JSON parser accepts (json.loads, the jsonb input function).
IsJson(t) == IsJsonList(t) \/ IsJsonString(t)

\* The value JSON text denotes.
JsonParse(t) ==
    IF IsJsonList(t)
    THEN LET inner == SelectSeq(SubSeq(t, 2, Len(t) - 1), NotSpace) IN
         PyList([k \in 1..((Len(inner) + 1) \div 2) |-> DigitValue(inner[2 * k - 1])])
    ELSE PyStr(SubSeq(t, 2, Len(t) - 1))

\* The text of a jsonb value as the store prints it: arrays with ", "
\* between the elements, strings quoted.
JsonbOut(v) ==
    IF v.kind = "list"
    THEN <<"[">> \o JoinItems(v.list) \o <<"]">>
    ELSE <<"\"">> \o v.text \o <<"\"">>

\* What the cursor returns for a jsonb column: the parsed value when the
\* driver's jsonb typecaster is registered (psycopg2 from 2.5.4 on registers
\* it by default), the column's text otherwise.
Drivers == BOOLEAN

FetchJsonb(v, typecast) == IF typecast THEN v ELSE PyStr(JsonbOut(v))

\* json.loads(c) if c else []: json.loads raises TypeError on what is not a
\* string and JSONDecodeError on text that is not JSON.
LoadCoordinates(c) ==
    IF ~Truthy(c) THEN [ok |-> TRUE, value |-> PyList(<<>>)]
    ELSE IF c.kind # "str" \/ ~IsJson(c.text)
    THEN [ok |-> FALSE, value |-> PyList(<<>>)]
    ELSE [ok |-> TRUE, value |-> JsonParse(c.text)]

\* ------------------------------------------------------ POST /api/fields
\* user_id REFERENCES users(id): the INSERT fails when the row is not there.
UserExists(user_id) == \E u \in users : u.id = user_id

\* coordinates in a body: an empty list, a list, the same list sent as text.
Coordinates ==
    {PyList(<<>>), PyList(<<1, 2>>), PyStr(<<"[", "1", ",", " ", "2", "]">>)}

FieldBodies ==
    [field_name : {"North Field", Missing}, coordinates : Coordinates,
     area_hectares : {-1, 0, 1}]

\* create_field with FieldService.create_field (one INSERT and its commit).
CreateField(p, edge, data, storeOk) ==
    LET auth == JwtRequired(p, now, edge)
        r0   == [Protected("create_field", p, auth) EXCEPT
                   !.coordinates = data.coordinates] IN
    /\ IF auth.code # "OK"
       THEN /\ resp' = Reject(r0, auth.code)
            /\ UNCHANGED fields
       ELSE IF data.field_name = Missing \/ ~Truthy(data.coordinates)
               \/ data.area_hectares = 0
       THEN /\ resp' = Reply(r0, "MISSING_FIELD", 400)
            /\ UNCHANGED fields
       ELSE IF ~storeOk \/ ~UserExists(auth.user_id)
       THEN /\ resp' = StoreFailure(r0, "CREATE_FIELD_FAILED")
            /\ UNCHANGED fields
       ELSE /\ Cardinality(fields) < MaxFields
            /\ LET id == Min(FieldIds \ {f.id : f \in fields}) IN
               /\ fields' = fields \cup
                     {[id |-> id, user_id |-> auth.user_id, status |-> "active",
                       coordinates |-> JsonParse(JsonDumps(data.coordinates)),
                       area_hectares |-> data.area_hectares,
                       created_at |-> Max({f.created_at : f \in fields} \cup {0}) + 1]}
               /\ resp' = [Reply(r0, "OK", 200) EXCEPT !.target = id]
    /\ UNCHANGED <<users, crops, irrigation, claims, reqs, tokens, now, acked,
                   registered, infra>>

\* ------------------------------------------------------- GET /api/fields
\* ?limit=: absent (the default), a number, or text int() rejects.
LimitArgs == {"absent", "abc", "-1", "0", "1", "2"}

\* int(): the number a decimal string denotes; "abc" raises ValueError.
IsInt(a) == a \in {"-1", "0", "1", "2"}
ParseInt(a) == CASE a = "-1" -> -1 [] a = "0" -> 0 [] a = "1" -> 1 [] a = "2" -> 2

RECURSIVE NewestFirst(_)
NewestFirst(S) ==
    IF S = {} THEN <<>>
    ELSE LET f == CHOOSE x \in S : \A y \in S : y.created_at <= x.created_at
         IN <<f>> \o NewestFirst(S \ {f})

\* Mutant: the SELECT without its LIMIT.
TakeAll(seq, n) == seq

\* LIMIT n: the first n rows, all of them when there are fewer.
Take(seq, n) == SubSeq(seq, 1, IF n < Len(seq) THEN n ELSE Len(seq))

\* Mutant: the SELECT without its status condition.
GetUserFieldsAnyStatus(user_id, limit) ==
    Take(NewestFirst({f \in fields : f.user_id = user_id}), limit)

\* FieldService.get_user_fields: the SELECT with its WHERE, ORDER BY and LIMIT.
GetUserFields(user_id, limit) ==
    Take(NewestFirst({f \in fields : f.user_id = user_id /\ f.status = "active"}),
         limit)

\* The loop over the fetched rows: each row's coordinates decoded.
FieldDicts(rows, typecast) ==
    [k \in 1..Len(rows) |->
        LoadCoordinates(FetchJsonb(rows[k].coordinates, typecast))]

\* get_fields with FieldService.get_user_fields.
GetFields(p, edge, limit, storeOk, typecast) ==
    LET auth == JwtRequired(p, now, edge)
        r0   == [Protected("get_fields", p, auth) EXCEPT !.limit = limit] IN
    /\ IF auth.code # "OK"
       THEN resp' = Reject(r0, auth.code)
       ELSE IF limit # "absent" /\ ~IsInt(limit)
       THEN resp' = [Reply(r0, "GET_FIELDS_FAILED", 500) EXCEPT
                       !.message = <<"invalid literal for int()">>]
       ELSE IF ~storeOk
       THEN resp' = StoreFailure(r0, "GET_FIELDS_FAILED")
       ELSE LET n == IF limit = "absent" THEN DefaultLimit ELSE ParseInt(limit) IN
            IF n < 0      \* LIMIT must not be negative
            THEN resp' = StoreFailure(r0, "GET_FIELDS_FAILED")
            ELSE LET rows  == GetUserFields(auth.user_id, n)
                     dicts == FieldDicts(rows, typecast) IN
                 IF \E k \in 1..Len(rows) : ~dicts[k].ok
                 THEN resp' = [Reply(r0, "GET_FIELDS_FAILED", 500) EXCEPT
                                 !.message = <<ServiceText("GET_FIELDS_FAILED"),
                                               "json.loads: not JSON text">>]
                 ELSE resp' = [Reply(r0, "OK", 200) EXCEPT
                                 !.items = [k \in 1..Len(rows) |->
                                              [rows[k] EXCEPT
                                                 !.coordinates = dicts[k].value]]]
    /\ UNCHANGED <<store, reqs, tokens, now, acked, registered, infra>>

\* -------------------------------------------------------- POST /api/crops
\* The last two members are not among those the service reads.
CropBodies ==
    [field_id : FieldIds \cup {NoId}, crop_name : {"Wheat", Missing},
     sowing_date : {"2025-11-15", Missing},
     total_water_used : {0, 99}, current_stage : {Missing, "harvested"}]

\* Mutant: the INSERT takes the totals and the stage from the body.
NewCropFromBody(id, user_id, data) ==
    [id |-> id, user_id |-> user_id, field_id |-> data.field_id,
     total_water_used |-> data.total_water_used,
     total_nitrogen_applied |-> data.total_water_used,
     total_phosphorus_applied |-> data.total_water_used,
     total_potassium_applied |-> data.total_water_used,
     current_stage |-> IF data.current_stage = Missing THEN "seeded"
                       ELSE data.current_stage]

\* The row of the INSERT INTO crops: the columns it names come from the body,
\* the totals and current_stage from the column defaults.
NewCrop(id, user_id, data) ==
    [id |-> id, user_id |-> user_id, field_id |-> data.field_id,
     total_water_used |-> 0,
     total_nitrogen_applied |-> 0,
     total_phosphorus_applied |-> 0,
     total_potassium_applied |-> 0,
     current_stage |-> "seeded"]

\* crops.field_id REFERENCES fields(id): the only check the INSERT makes on it
\* (crops.user_id REFERENCES users(id) is checked alike).
FieldExists(field_id) == \E f \in fields : f.id = field_id

\* create_crop with CropService.create_crop_lifecycle (one INSERT, commit).
CreateCrop(p, edge, data, storeOk) ==
    LET auth == JwtRequired(p, now, edge)
        r0   == [Protected("create_crop", p, auth) EXCEPT
                   !.ref = data.field_id,
                   !.extra = data.total_water_used # 0
                             \/ data.current_stage # Missing] IN
    /\ IF auth.code # "OK"
       THEN /\ resp' = Reject(r0, auth.code)
            /\ UNCHANGED crops
       ELSE IF data.field_id = NoId \/ data.crop_name = Missing
               \/ data.sowing_date = Missing
       THEN /\ resp' = Reply(r0, "MISSING_FIELD", 400)
            /\ UNCHANGED crops
       ELSE IF ~storeOk \/ ~UserExists(auth.user_id) \/ ~FieldExists(data.field_id)
       THEN /\ resp' = StoreFailure(r0, "CREATE_CROP_FAILED")
            /\ UNCHANGED crops
       ELSE /\ Cardinality(crops) < MaxCrops
            /\ LET id == Min(CropIds \ {c.id : c \in crops}) IN
               /\ crops' = crops \cup {NewCrop(id, auth.user_id, data)}
               /\ resp' = [Reply(r0, "OK", 200) EXCEPT !.target = id]
    /\ UNCHANGED <<users, fields, irrigation, claims, reqs, tokens, now, acked,
                   registered, infra>>

\* ---------------------------------------- POST /api/crops/<id>/irrigation
IrrigationBodies ==
    [irrigation_date : {"2025-12-01", Missing}, amount_mm : Amounts]

\* irrigation_records.crop_id REFERENCES crops(id).
CropExists(crop_id) == \E c \in crops : c.id = crop_id

FreeIrrIds ==
    IrrIds \ ({i.id : i \in irrigation}
              \cup {reqs[q].irow.id : q \in Open("irrigation")})

\* add_irrigation_record up to the INSERT of CropService.add_irrigation_record.
AddIrrigation(r, p, edge, crop_id, data) ==
    LET auth == JwtRequired(p, now, edge)
        r0   == [Protected("add_irrigation", p, auth) EXCEPT !.ref = crop_id] IN
    /\ reqs[r].pc = "idle"
    /\ IF auth.code # "OK"
       THEN /\ resp' = Reject(r0, auth.code)
            /\ UNCHANGED reqs
       ELSE IF data.irrigation_date = Missing \/ data.amount_mm = 0
       THEN /\ resp' = Reply(r0, "MISSING_FIELD", 400)
            /\ UNCHANGED reqs
       ELSE IF ~CropExists(crop_id)
       THEN /\ resp' = StoreFailure(r0, "ADD_IRRIGATION_FAILED")
            /\ UNCHANGED reqs
       ELSE /\ FreeIrrIds # {}
            /\ reqs' = [reqs EXCEPT ![r] =
                 [Idle EXCEPT !.pc = "inserted", !.op = "irrigation", !.r0 = r0,
                    !.irow = [id |-> Min(FreeIrrIds), crop_id |-> crop_id,
                              amount_mm |-> data.amount_mm]]]
            /\ UNCHANGED resp
    /\ UNCHANGED <<store, tokens, now, acked, registered, infra>>

\* Mutant: the total is read and written back without the row lock.
RowLockIgnored(crop_id, r) == TRUE

\* UPDATE crops ... WHERE id = crop_id locks the row until the transaction
\* ends: a second UPDATE of the same row waits for the first.
RowLockFree(crop_id, r) ==
    \A q \in Open("irrigation") \ {r} :
        ~(reqs[q].pc = "updated" /\ reqs[q].irow.crop_id = crop_id)

\* The UPDATE: total_water_used = total_water_used + amount_mm, evaluated on
\* the latest committed row once the lock is held.
IrrigationUpdate(r) ==
    /\ reqs[r].pc = "inserted"
    /\ reqs[r].op = "irrigation"
    /\ RowLockFree(reqs[r].irow.crop_id, r)
    /\ reqs' = [reqs EXCEPT ![r].pc = "updated",
                            ![r].total = CropById(reqs[r].irow.crop_id).total_water_used
                                         + reqs[r].irow.amount_mm]
    /\ UNCHANGED <<store, tokens, now, resp, acked, registered, infra>>

\* conn.commit(): both writes become visible, then the success response.
IrrigationCommit(r) ==
    /\ reqs[r].pc = "updated"
    /\ reqs[r].op = "irrigation"
    /\ LET i == reqs[r].irow
           c == CropById(i.crop_id) IN
       /\ irrigation' = irrigation \cup {i}
       /\ crops' = (crops \ {c}) \cup {[c EXCEPT !.total_water_used = reqs[r].total]}
       /\ resp' = [Reply(reqs[r].r0, "OK", 200) EXCEPT !.target = i.id]
       /\ acked' = [acked EXCEPT ![i.crop_id] = @ + i.amount_mm]
    /\ reqs' = [reqs EXCEPT ![r] = Idle]
    /\ UNCHANGED <<users, fields, claims, tokens, now, registered, infra>>

\* Mutant: the failed transaction's INSERT is left to be committed.
TxFailKeepsInsert(r) ==
    /\ reqs[r].pc # "idle"
    /\ resp' = Reply(reqs[r].r0, "ADD_IRRIGATION_FAILED", 500)
    /\ irrigation' = IF reqs[r].op = "irrigation"
                     THEN irrigation \cup {reqs[r].irow} ELSE irrigation
    /\ reqs' = [reqs EXCEPT ![r] = Idle]
    /\ UNCHANGED <<users, fields, crops, claims, tokens, now, acked, registered, infra>>

\* A statement or the commit of an open transaction raises (the store is
\* lost, a statement times out): the handler's except answers 500 and
\* get_connection's putconn hands the connection back, which rolls the
\* transaction back.
FailureCode(op) ==
    IF op = "register" THEN "REGISTRATION_FAILED" ELSE "ADD_IRRIGATION_FAILED"

TxFail(r) ==
    /\ reqs[r].pc # "idle"
    /\ resp' = [StoreFailure(reqs[r].r0, FailureCode(reqs[r].op)) EXCEPT
                  !.at = IF reqs[r].op = "register" THEN now ELSE 0]
    /\ reqs' = [reqs EXCEPT ![r] = Idle]
    /\ UNCHANGED <<store, tokens, now, acked, registered, infra>>

\* ------------------------------------------ POST /api/climate-damage-claims
ClaimBodies ==
    [complete : BOOLEAN,     \* all twelve required members present and truthy
     severity_level : Severities \cup {"catastrophic"},
     field_id : FieldIds \cup {NoId},     \* claim_data.get('field_id')
     crop_id : CropIds \cup {NoId}]       \* claim_data.get('crop_id')

\* field_id REFERENCES fields(id), crop_id REFERENCES crops(id): checked by
\* the INSERT when the member is given (NULL otherwise).
ClaimParentsExist(data) ==
    /\ data.field_id # NoId => \E f \in fields : f.id = data.field_id
    /\ data.crop_id # NoId => \E c \in crops : c.id = data.crop_id

\* "CLM" + datetime.now().strftime('%Y%m%d') + str(uuid.uuid4())[:8].upper()
ClaimRef(t, suffix) == <<"CLM", t, suffix>>

\* Mutant: no uniqueness constraint on claim_reference_number.
RefNeverTaken(ref) == FALSE

\* climate_damage_claims.claim_reference_number UNIQUE
RefTaken(ref) == \E c \in claims : c.claim_reference_number = ref

\* Mutant: the role check left out.
RoleMayClaimAny(user_type) == TRUE

\* Only farmers can create claims.
RoleMayClaim(user_type) == user_type = "farmer"

\* create_climate_claim with ClimateClaimService.create_climate_claim
\* (one INSERT and its commit).
CreateClimateClaim(p, edge, data, suffix, storeOk) ==
    LET auth == JwtRequired(p, now, edge)
        ref  == ClaimRef(now, suffix)
        r0   == [Protected("create_claim", p, auth) EXCEPT
                   !.claim_ref = ref,
                   !.field_id = data.field_id,
                   !.invalid = data.severity_level \notin Severities] IN
    /\ IF auth.code # "OK"
       THEN /\ resp' = Reject(r0, auth.code)
            /\ UNCHANGED claims
       ELSE IF ~RoleMayClaim(auth.user_type)
       THEN /\ resp' = Reply(r0, "UNAUTHORIZED", 403)
            /\ UNCHANGED claims
       ELSE IF ~data.complete
       THEN /\ resp' = Reply(r0, "MISSING_FIELD", 400)
            /\ UNCHANGED claims
       ELSE IF \/ ~storeOk
               \/ ~UserExists(auth.user_id)
               \/ ~ClaimParentsExist(data)
               \/ data.severity_level \notin Severities
               \/ RefTaken(ref)
       THEN /\ resp' = StoreFailure(r0, "CREATE_CLAIM_FAILED")
            /\ UNCHANGED claims
       ELSE /\ Cardinality(claims) < MaxClaims
            /\ LET id == Min((1..MaxClaims) \ {c.id : c \in claims}) IN
               /\ claims' = claims \cup
                     {[id |-> id, user_id |-> auth.user_id,
                       field_id |-> data.field_id, crop_id |-> data.crop_id,
                       severity_level |-> data.severity_level,
                       claim_reference_number |-> ref,
                       claim_status |-> "submitted", created_at |-> now]}
               /\ resp' = [Reply(r0, "OK", 200) EXCEPT !.target = id]
    /\ UNCHANGED <<users, fields, crops, irrigation, reqs, tokens, now, acked,
                   registered, infra>>

\* ------------------------------------------- GET /api/government-schemes
\* The list the route builds (text members are sequences of characters).
MockSchemes ==
    <<[id |-> "PMFBY",
       name |->
         <<"P", "r", "a", "d", "h", "a", "n", " ", "M", "a", "n", "t", "r", "i",
           " ", "F", "a", "s", "a", "l", " ", "B", "i", "m", "a", " ", "Y", "o",
           "j", "a", "n", "a", " ", "(", "P", "M", "F", "B", "Y", ")">>,
       description |->
         <<"C", "o", "m", "p", "r", "e", "h", "e", "n", "s", "i", "v", "e", " ",
           "c", "r", "o", "p", " ", "i", "n", "s", "u", "r", "a", "n", "c", "e",
           " ", "f", "o", "r", " ", "w", "e", "a", "t", "h", "e", "r", "-", "r",
           "e", "l", "a", "t", "e", "d", " ", "l", "o", "s", "s", "e", "s">>,
       max_amount |-> "₹2,00,000",
       eligibility |-> "All farmers growing notified crops"],
      [id |-> "WBCIS",
       name |->
         <<"W", "e", "a", "t", "h", "e", "r", " ", "B", "a", "s", "e", "d", " ",
           "C", "r", "o", "p", " ", "I", "n", "s", "u", "r", "a", "n", "c", "e",
           " ", "S", "c", "h", "e", "m", "e", " ", "(", "W", "B", "C", "I", "S",
           ")">>,
       description |->
         <<"I", "n", "s", "u", "r", "a", "n", "c", "e", " ", "b", "a", "s", "e",
           "d", " ", "o", "n", " ", "w", "e", "a", "t", "h", "e", "r", " ", "p",
           "a", "r", "a", "m", "e", "t", "e", "r", "s">>,
       max_amount |-> "₹1,50,000",
       eligibility |-> "Farmers affected by adverse weather"],
      [id |-> "NAIS",
       name |->
         <<"N", "a", "t", "i", "o", "n", "a", "l", " ", "A", "g", "r", "i", "c",
           "u", "l", "t", "u", "r", "a", "l", " ", "I", "n", "s", "u", "r", "a",
           "n", "c", "e", " ", "S", "c", "h", "e", "m", "e", " ", "(", "N", "A",
           "I", "S", ")">>,
       description |->
         <<"B", "a", "s", "i", "c", " ", "c", "r", "o", "p", " ", "i", "n", "s",
           "u", "r", "a", "n", "c", "e", " ", "f", "o", "r", " ", "n", "a", "t",
           "u", "r", "a", "l", " ", "c", "a", "l", "a", "m", "i", "t", "i", "e",
           "s">>,
       max_amount |-> "₹1,00,000",
       eligibility |-> "Small and marginal farmers"]>>

\* The rows of the seed INSERT, by scheme_code; is_active is the column default.
SeedRow(code) ==
    CASE code = "PMFBY" ->
           [scheme_code |-> "PMFBY",
            scheme_name |->
              <<"P", "r", "a", "d", "h", "a", "n", " ", "M", "a", "n", "t", "r", "i",
                " ", "F", "a", "s", "a", "l", " ", "B", "i", "m", "a", " ", "Y", "o",
                "j", "a", "n", "a", " ", "(", "P", "M", "F", "B", "Y", ")">>,
            description |->
              <<"C", "o", "m", "p", "r", "e", "h", "e", "n", "s", "i", "v", "e", " ",
                "c", "r", "o", "p", " ", "i", "n", "s", "u", "r", "a", "n", "c", "e",
                " ", "f", "o", "r", " ", "w", "e", "a", "t", "h", "e", "r", "-", "r",
                "e", "l", "a", "t", "e", "d", " ", "l", "o", "s", "s", "e", "s">>,
            max_claim_amount |-> 200000,
            is_active |-> TRUE]
      [] code = "WBCIS" ->
           [scheme_code |-> "WBCIS",
            scheme_name |->
              <<"W", "e", "a", "t", "h", "e", "r", " ", "B", "a", "s", "e", "d", " ",
                "C", "r", "o", "p", " ", "I", "n", "s", "u", "r", "a", "n", "c", "e",
                " ", "S", "c", "h", "e", "m", "e", " ", "(", "W", "B", "C", "I", "S",
                ")">>,
            description |->
              <<"I", "n", "s", "u", "r", "a", "n", "c", "e", " ", "b", "a", "s", "e",
                "d", " ", "o", "n", " ", "w", "e", "a", "t", "h", "e", "r", " ", "p",
                "a", "r", "a", "m", "e", "t", "e", "r", "s">>,
            max_claim_amount |-> 150000,
            is_active |-> TRUE]
      [] code = "NAIS" ->
           [scheme_code |-> "NAIS",
            scheme_name |->
              <<"N", "a", "t", "i", "o", "n", "a", "l", " ", "A", "g", "r", "i", "c",
                "u", "l", "t", "u", "r", "a", "l", " ", "I", "n", "s", "u", "r", "a",
                "n", "c", "e", " ", "S", "c", "h", "e", "m", "e", " ", "(", "N", "A",
                "I", "S", ")">>,
            description |->
              <<"B", "a", "s", "i", "c", " ", "c", "r", "o", "p", " ", "i", "n", "s",
                "u", "r", "a", "n", "c", "e", " ", "f", "o", "r", " ", "n", "a", "t",
                "u", "r", "a", "l", " ", "c", "a", "l", "a", "m", "i", "t", "i", "e",
                "s">>,
            max_claim_amount |-> 100000,
            is_active |-> TRUE]
      [] code = "DISASTER_RELIEF" ->
           [scheme_code |-> "DISASTER_RELIEF",
            scheme_name |->
              <<"S", "t", "a", "t", "e", " ", "D", "i", "s", "a", "s", "t", "e", "r",
                " ", "R", "e", "l", "i", "e", "f", " ", "F", "u", "n", "d">>,
            description |->
              <<"E", "m", "e", "r", "g", "e", "n", "c", "y", " ", "r", "e", "l", "i",
                "e", "f", " ", "f", "o", "r", " ", "c", "l", "i", "m", "a", "t", "e",
                " ", "d", "i", "s", "a", "s", "t", "e", "r", "s">>,
            max_claim_amount |-> 50000,
            is_active |-> TRUE]
      [] code = "KISAN_CREDIT" ->
           [scheme_code |-> "KISAN_CREDIT",
            scheme_name |->
              <<"K", "i", "s", "a", "n", " ", "C", "r", "e", "d", "i", "t", " ", "C",
                "a", "r", "d", " ", "S", "c", "h", "e", "m", "e">>,
            description |->
              <<"C", "r", "e", "d", "i", "t", " ", "s", "u", "p", "p", "o", "r", "t",
                " ", "f", "o", "r", " ", "c", "r", "o", "p", " ", "r", "e", "c", "o",
                "v", "e", "r", "y">>,
            max_claim_amount |-> 300000,
            is_active |-> TRUE]

\* ?search=: absent or empty, or text in either case.
Searches ==
    {<<>>,
     <<"w", "e", "a", "t", "h", "e", "r">>,
     <<"W", "E", "A", "T", "H", "E", "R">>,
     <<"C", "r", "o", "p">>,
     <<"c", "r", "e", "d", "i", "t">>,
     <<"b", "a", "s", "i", "c">>,
     <<"(", "n", "a", "i", "s", ")">>,
     <<"x", "y", "z">>}

\* ?max_amount=: absent, or a number.  The route does not read it.
NoAmount == [given |-> FALSE, value |-> 0]
MaxAmountArgs ==
    {NoAmount, [given |-> TRUE, value |-> 100000], [given |-> TRUE, value |-> 200000]}

UpperCase == <<"A", "B", "C", "D", "E", "F", "G", "H", "I", "J", "K", "L", "M",
               "N", "O", "P", "Q", "R", "S", "T", "U", "V", "W", "X", "Y", "Z">>
LowerCase == <<"a", "b", "c", "d", "e", "f", "g", "h", "i", "j", "k", "l", "m",
               "n", "o", "p", "q", "r", "s", "t", "u", "v", "w", "x", "y", "z">>

\* str.lower(): a cased character becomes its lowercase, the others stay.
LowerChar(c) ==
    IF \E k \in DOMAIN UpperCase : UpperCase[k] = c
    THEN LowerCase[CHOOSE k \in DOMAIN UpperCase : UpperCase[k] = c]
    ELSE c

Lower(text) == [k \in 1..Len(text) |-> LowerChar(text[k])]

\* a in b for strings: a is a run of consecutive characters of b.
In(a, b) ==
    \E k \in 0..(Len(b) - Len(a)) : SubSeq(b, k + 1, k + Len(a)) = a

\* Mutant: the filter lets every scheme through.
SchemeMatchesAny(scheme, search_query) == TRUE

\* search_query in scheme['name'].lower() or
\* search_query in scheme['description'].lower()
SchemeMatches(scheme, search_query) ==
    \/ In(search_query, Lower(scheme.name))
    \/ In(search_query, Lower(scheme.description))

\* get_government_schemes: no jwt_required on the route, so the header p is
\* not looked at; the list is filtered when the lowered search is not empty.
GetGovernmentSchemes(p, search, max_amount) ==
    LET search_query == Lower(search)
        Keep(scheme) == SchemeMatches(scheme, search_query)
        r0 == [NoResp EXCEPT !.op = "get_schemes", !.present = p.present,
                             !.mode = p.mode, !.tok = p.orig,
                             !.search = search, !.max_amount = max_amount] IN
    /\ resp' = [Reply(r0, "OK", 200) EXCEPT
                  !.items = IF search_query # <<>>
                            THEN SelectSeq(MockSchemes, Keep)
                            ELSE MockSchemes]
    /\ UNCHANGED <<store, reqs, tokens, now, acked, registered, infra>>

\* ------------------------------------------------------------ environment
\* Time passes.
Tick ==
    /\ now < MaxTime
    /\ now' = now + 1
    /\ UNCHANGED <<store, reqs, tokens, resp, acked, registered, infra>>

\* A field's status changes (fields.status is one of Statuses; "deleted" is
\* a status, the row stays).  No route of the service does this: the change
\* is made on the store.
SetFieldStatus(id, status) ==
    /\ FieldExists(id)
    /\ FieldById(id).status # status
    /\ fields' = (fields \ {FieldById(id)})
                     \cup {[FieldById(id) EXCEPT !.status = status]}
    /\ UNCHANGED <<users, crops, irrigation, claims, reqs, tokens, now, resp,
                   acked, registered, infra>>

\* An account is deactivated (users.is_active; accounts are never deleted).
\* No route of the service does this: the change is made on the store.
DeactivateUser(id) ==
    /\ \E u \in users : u.id = id /\ u.is_active
    /\ users' = (users \ {UserById(id)})
                    \cup {[UserById(id) EXCEPT !.is_active = FALSE]}
    /\ UNCHANGED <<fields, crops, irrigation, claims, reqs, tokens, now, resp,
                   acked, registered, infra>>

\* ----------------------------------------------------- deletes on the store
\* No route deletes a row.  A DELETE issued on the store follows the schema's
\* foreign keys: ON DELETE CASCADE from users to fields, crops and claims,
\* from fields to crops, from crops to irrigation_records; ON DELETE SET NULL
\* from fields and crops to climate_damage_claims.

\* Mutant: the claims' references declared without ON DELETE SET NULL effect.
KeepReferences(rows, goneFields, goneCrops) == rows

\* climate_damage_claims.field_id / crop_id ... ON DELETE SET NULL
SetNull(rows, goneFields, goneCrops) ==
    {[cl EXCEPT !.field_id = IF @ \in goneFields THEN NoId ELSE @,
                !.crop_id  = IF @ \in goneCrops THEN NoId ELSE @] : cl \in rows}

\* The rows a DELETE of the given users, fields and crops takes with it.
CascadeFields(goneUsers, goneFields) ==
    goneFields \cup {f.id : f \in {x \in fields : x.user_id \in goneUsers}}

CascadeCrops(goneUsers, goneFields, goneCrops) ==
    goneCrops \cup
        {c.id : c \in {x \in crops :
                          \/ x.user_id \in goneUsers
                          \/ x.field_id \in CascadeFields(goneUsers, goneFields)}}

\* The DELETE waits for the open transactions that inserted a record of one of
\* the crops (their key lock on the crop row), then removes the rows.
Delete(goneUsers, goneFields, goneCrops) ==
    LET gF == CascadeFields(goneUsers, goneFields)
        gC == CascadeCrops(goneUsers, goneFields, goneCrops) IN
    /\ \A q \in Open("irrigation") : reqs[q].irow.crop_id \notin gC
    /\ users' = {u \in users : u.id \notin goneUsers}
    /\ fields' = {f \in fields : f.id \notin gF}
    /\ crops' = {c \in crops : c.id \notin gC}
    /\ irrigation' = {i \in irrigation : i.crop_id \notin gC}
    /\ claims' = SetNull({cl \in claims : cl.user_id \notin goneUsers}, gF, gC)
    /\ acked' = [c \in CropIds |-> IF c \in gC THEN 0 ELSE acked[c]]
    /\ UNCHANGED <<reqs, tokens, now, resp, registered, infra>>

DeleteUser(id) == UserExists(id) /\ Delete({id}, {}, {})

DeleteField(id) == (\E f \in fields : f.id = id) /\ Delete({}, {id}, {})

DeleteCrop(id) == (\E c \in crops : c.id = id) /\ Delete({}, {}, {id})

\* The store stops answering (network, server down), and comes back.
StoreDown ==
    /\ reachable
    /\ reachable' = FALSE
    /\ UNCHANGED <<store, reqs, tokens, now, resp, acked, registered,
                   pool, conns, is_connected, schema, debug>>

StoreUp ==
    /\ ~reachable
    /\ reachable' = TRUE
    /\ UNCHANGED <<store, reqs, tokens, now, resp, acked, registered,
                   pool, conns, is_connected, schema, debug>>

\* ------------------------------------------------------ connection manager
\* get_connection up to its yield: connection_pool.getconn().  An idle
\* connection is handed out; with none idle the pool raises when len(_used)
\* equals maxconn and opens a new connection otherwise (_connect).
GetConn ==
    /\ pool.held + pool.connecting < MaxOps
    /\ pool' =
          IF pool.idle > 0
          THEN [pool EXCEPT !.idle = @ - 1, !.used = @ + 1, !.held = @ + 1,
                            !.last = "pooled"]
          ELSE IF pool.used = maxconn
          THEN [pool EXCEPT !.last = "exhausted"]
          ELSE [pool EXCEPT !.connecting = @ + 1, !.last = "connecting"]
    /\ UNCHANGED <<store, reqs, tokens, now, resp, acked, registered,
                   conns, is_connected, reachable, schema, debug>>

\* _connect: psycopg2.connect returns and the connection is entered in
\* _used, or it raises and the unit of work ends without a connection.
Connected(ok) ==
    /\ pool.connecting > 0
    /\ pool' =
          IF ok
          THEN [pool EXCEPT !.connecting = @ - 1, !.used = @ + 1, !.held = @ + 1,
                            !.last = "connected"]
          ELSE [pool EXCEPT !.connecting = @ - 1, !.last = "refused"]
    /\ UNCHANGED <<store, reqs, tokens, now, resp, acked, registered,
                   conns, is_connected, reachable, schema, debug>>

\* The body of the with-block returns or raises; finally: putconn(conn).
\* The connection goes back to _pool while fewer than minconn are idle and is
\* closed otherwise.
PutConn(raised) ==
    /\ pool.held > 0
    /\ pool' = [pool EXCEPT !.held = @ - 1, !.used = @ - 1,
                            !.idle = IF @ < minconn THEN @ + 1 ELSE @,
                            !.last = IF raised THEN "returned on error"
                                     ELSE "returned"]
    /\ UNCHANGED <<store, reqs, tokens, now, resp, acked, registered,
                   conns, is_connected, reachable, schema, debug>>

\* ---------------------------------------------- a unit of work, step by step
\* The dicts _used and _rused as sets of entries.
HasKey(d, key) == \E e \in d : e.key = key

ConnOf(d, key) == (CHOOSE e \in d : e.key = key).conn

HasConn(d, conn) == \E e \in d : e.conn = conn

KeyOf(d, conn) == (CHOOSE e \in d : e.conn = conn).key

\* _used[key] = conn
SetKey(d, key, conn) ==
    {e \in d : e.key # key} \cup {[key |-> key, conn |-> conn]}

\* _rused[id(conn)] = key
SetConn(d, conn, key) ==
    {e \in d : e.conn # conn} \cup {[key |-> key, conn |-> conn]}

Holding == {"holding", "executed", "committed", "failed"}

Acquiring == {"keyread", "keyed", "popping", "connecting"}

UnitStep(u, c1) == /\ conns' = c1
                   /\ UNCHANGED <<store, reqs, tokens, now, resp, acked,
                                  registered, pool, is_connected, reachable,
                                  schema, debug>>

\* _getkey, "self._keys += 1": the read of the counter ...
KeyRead(u) ==
    /\ conns.unit[u].pc = "new"
    /\ UnitStep(u, [conns EXCEPT !.unit[u].pc = "keyread",
                                 !.unit[u].k = conns.keys])

\* ... and the store of the sum, which _getkey returns.  The pool has no
\* lock: another thread may have run between the read and the store.
KeyWrite(u) ==
    /\ conns.unit[u].pc = "keyread"
    /\ UnitStep(u, [conns EXCEPT !.keys = conns.unit[u].k + 1,
                                 !.unit[u].key = conns.unit[u].k + 1,
                                 !.unit[u].pc = "keyed"])

\* _getconn after the key: a key already in _used answers with its
\* connection; else "if self._pool:" chooses between the pop and _connect.
GetConnKeyed(u) ==
    LET key == conns.unit[u].key IN
    /\ conns.unit[u].pc = "keyed"
    /\ UnitStep(u,
          IF HasKey(conns.used, key)
          THEN [conns EXCEPT !.unit[u].conn = ConnOf(conns.used, key),
                             !.unit[u].pc = "holding"]
          ELSE IF Len(conns.pooled) > 0
          THEN [conns EXCEPT !.unit[u].pc = "popping"]
          ELSE IF Cardinality(conns.used) = maxconn
          THEN [conns EXCEPT !.unit[u].pc = "done",
                             !.unit[u].outcome = "exhausted"]
          ELSE [conns EXCEPT !.unit[u].pc = "connecting"])

\* self._used[key] = conn = self._pool.pop(); self._rused[id(conn)] = key.
\* pop raises IndexError on a list another thread has emptied meanwhile, and
\* get_connection then has no connection to put back.
PoolPop(u) ==
    LET key == conns.unit[u].key
        n   == Len(conns.pooled)
        c   == conns.pooled[n] IN
    /\ conns.unit[u].pc = "popping"
    /\ UnitStep(u,
          IF n = 0
          THEN [conns EXCEPT !.unit[u].pc = "done",
                             !.unit[u].outcome = "refused"]
          ELSE [conns EXCEPT !.pooled = SubSeq(conns.pooled, 1, n - 1),
                             !.used = SetKey(conns.used, key, c),
                             !.rused = SetConn(conns.rused, c, key),
                             !.unit[u].conn = c,
                             !.unit[u].pc = "holding"])

\* _connect(key): psycopg2.connect, then the same two dict entries.
PoolConnect(u, ok) ==
    LET key      == conns.unit[u].key
        unopened == {c \in ConnIds : conns.tx[c].status = "unopened"}
        c        == Min(unopened) IN
    /\ conns.unit[u].pc = "connecting"
    /\ UnitStep(u,
          IF ~ok \/ unopened = {}
          THEN [conns EXCEPT !.unit[u].pc = "done",
                             !.unit[u].outcome = "refused"]
          ELSE [conns EXCEPT !.tx[c].status = "idle",
                             !.used = SetKey(conns.used, key, c),
                             !.rused = SetConn(conns.rused, c, key),
                             !.unit[u].conn = c,
                             !.unit[u].pc = "holding"])

\* cursor.execute(...) in the body of the with-block.  The first statement
\* opens a transaction; a write stays pending in it.  On a connection whose
\* transaction is aborted, or that is closed, the statement itself raises.
Execute(u, write) ==
    LET c == conns.unit[u].conn IN
    /\ conns.unit[u].pc \in {"holding", "executed"}
    /\ UnitStep(u,
          IF conns.tx[c].status \in {"inerror", "unknown", "closed"}
          THEN [conns EXCEPT !.unit[u].pc = "failed",
                             !.unit[u].outcome = "poisoned"]
          ELSE [conns EXCEPT
                  !.tx[c].status = "intrans",
                  !.tx[c].writes = IF write THEN @ \cup {u} ELSE @,
                  !.unit[u].wrote = @ \/ write,
                  !.unit[u].pc = "executed"])

\* The body raises: a statement the server rejects (the transaction is
\* aborted), a Python error between statements (the transaction stays
\* open), or a lost server connection.
Raise(u, kind) ==
    LET c == conns.unit[u].conn
        t == conns.tx[c] IN
    /\ conns.unit[u].pc \in {"holding", "executed"}
    /\ UnitStep(u,
          [conns EXCEPT
             !.tx[c].status = IF t.status = "closed" THEN @
                              ELSE IF kind = "statement" THEN "inerror"
                              ELSE IF kind = "lost" THEN "unknown"
                              ELSE @,
             !.unit[u].pc = "failed",
             !.unit[u].outcome = "raised"])

\* conn.commit(): the pending writes of the connection's transaction become
\* durable; an aborted transaction is rolled back by the server instead.
Commit(u) ==
    LET c == conns.unit[u].conn
        t == conns.tx[c] IN
    /\ conns.unit[u].pc = "executed"
    /\ UnitStep(u,
          IF t.status \in {"unknown", "closed"}
          THEN [conns EXCEPT !.unit[u].pc = "failed",
                             !.unit[u].outcome = "poisoned"]
          ELSE [conns EXCEPT
                  !.durable = IF t.status = "intrans" THEN @ \cup t.writes ELSE @,
                  !.tx[c] = [status |-> "idle", writes |-> {}],
                  !.unit[u].pc = "committed",
                  !.unit[u].outcome = "ok"])

\* Mutant: putconn pools the connection as it comes back.
PutAwayAsIs(t) == t

\* What _putconn does to a connection before it pools it: a connection in
\* unknown state is closed, one in a transaction or in error is rolled back.
PutAway(t) ==
    IF t.status = "closed" THEN t
    ELSE IF t.status = "unknown" THEN [status |-> "closed", writes |-> {}]
    ELSE IF t.status # "idle" THEN [status |-> "idle", writes |-> {}]
    ELSE t

\* finally: if conn: self.connection_pool.putconn(conn).  The body ended by
\* its return (after a commit, or without one when it only read) or by an
\* exception.  putconn raises for a connection _rused does not know, and
\* "del self._used[key]" raises when the key is gone.
ReleaseConn(u) ==
    LET U    == conns.unit[u]
        c    == U.conn
        key  == KeyOf(conns.rused, c)
        room == Len(conns.pooled) < minconn
        t1   == IF room THEN PutAway(conns.tx[c])
                ELSE [status |-> "closed", writes |-> {}]
        c1   == [conns EXCEPT
                   !.tx[c] = t1,
                   !.pooled = IF room /\ t1.status # "closed"
                              THEN Append(@, c) ELSE @] IN
    /\ \/ U.pc \in {"holding", "committed", "failed"}
       \/ U.pc = "executed" /\ ~U.wrote
    /\ UnitStep(u,
          IF ~HasConn(conns.rused, c)
          THEN [conns EXCEPT !.unit[u].pc = "done",
                             !.unit[u].outcome = "untracked"]
          ELSE IF ~HasKey(conns.used, key)
          THEN [c1 EXCEPT !.unit[u].pc = "done",
                          !.unit[u].outcome = "untracked"]
          ELSE [c1 EXCEPT !.used = {e \in @ : e.key # key},
                          !.rused = {e \in @ : e.conn # c},
                          !.unit[u].pc = "done"])

RaiseKinds == {"statement", "python", "lost"}

UnitSteps(u, oks, writes, kinds) ==
    \/ KeyWrite(u)
    \/ GetConnKeyed(u)
    \/ PoolPop(u)
    \/ \E ok \in oks : PoolConnect(u, ok)
    \/ \E write \in writes : Execute(u, write)
    \/ \E kind \in kinds : Raise(u, kind)
    \/ Commit(u)
    \/ ReleaseConn(u)


\* ------------------------------------------------- init_postgresql_database
\* Run by a starting process (its own db_config): connect(), then the schema
\* script and its commit.  False ("FAILED") when connect or the script fails.
InitPostgresqlDatabase ==
    LET r0  == [Public("init_database") EXCEPT !.up = reachable]
        run == SchemaSql(schema) IN
    /\ IF ~reachable
       THEN /\ resp' = Reply(r0, "FAILED", 0)
            /\ UNCHANGED schema
       ELSE /\ resp' = Reply(r0, IF run.ok THEN "OK" ELSE "FAILED", 0)
            /\ schema' = run.schema
    /\ UNCHANGED <<store, reqs, tokens, now, acked, registered,
                   pool, conns, is_connected, reachable, debug>>

\* ------------------------------------------------------------ the Flask app
\* app.run(host='0.0.0.0', port=5002, debug=True): the way the module starts
\* the server itself.  Under another server app.debug stays False.
AppRun ==
    /\ ~debug
    /\ debug' = TRUE
    /\ UNCHANGED <<store, reqs, tokens, now, resp, acked, registered,
                   pool, conns, is_connected, reachable, schema>>

\* handle_exception: an exception outside the routes' own try blocks (a URL
\* without a route, a method the route does not take).
HandleException ==
    /\ resp' = [Public("unrouted") EXCEPT
                  !.code = "SERVER_ERROR", !.status = 500,
                  !.error = {"code", "message", "details"},
                  !.message = <<"An unexpected error occurred">>,
                  !.details = IF debug THEN <<"404 Not Found">> ELSE <<>>]
    /\ UNCHANGED <<store, reqs, tokens, now, acked, registered, infra>>

\* ------------------------------------------------------------- GET /health
\* health_check: the answer is read from db_config.is_connected.
HealthCheck ==
    LET r0 == [Public("health_check") EXCEPT !.up = reachable] IN
    /\ resp' = IF is_connected
               THEN Reply(r0, "OK", 200)
               ELSE Reply(r0, "DB_CONNECTION_FAILED", 503)
    /\ UNCHANGED <<store, reqs, tokens, now, acked, registered, infra>>

\* ---------------------------------------------------------- specifications
\* An idle request slot (the slots are interchangeable: the lowest is taken).
FirstIdle ==
    LET idle == {r \in ReqIds : reqs[r].pc = "idle"} IN
    IF idle = {} THEN {} ELSE {Min(idle)}

\* The library's verdicts on header p now: both at the expiry instant.
Edges(p) ==
    IF p.present /\ StripBearer(p).exp = now THEN BOOLEAN ELSE {FALSE}

\* Headers of clients that send what they were issued, or nothing.
Honest == {p \in Presented : p.mode = "intact" /\ (p.present => p.bearer)}

\* Bodies that pass the routes' checks.
GoodRegister(pws, types) ==
    {d \in RegisterBodies : /\ d.email # Missing /\ d.name # Missing
                            /\ d.password \in pws /\ d.user_type \in types}
GoodField == {d \in FieldBodies : d.field_name # Missing
                                  /\ d.coordinates = PyList(<<1, 2>>)
                                  /\ d.area_hectares = 1}
\* Bodies whose coordinates are a list, empty or not.
ListBodies == {d \in FieldBodies : d.coordinates.kind = "list"}
GoodCrop == {d \in CropBodies : /\ d.crop_name # Missing
                                 /\ d.sowing_date # Missing
                                 /\ d.total_water_used = 0
                                 /\ d.current_stage = Missing}
GoodIrrigation == {d \in IrrigationBodies : d.irrigation_date # Missing
                                            /\ d.amount_mm > 0}

RegisterSteps(bodies, salts) ==
    \/ \E r \in FirstIdle, data \in bodies, salt \in salts : Register(r, data, salt)
    \/ \E r \in ReqIds : RegisterCommit(r)

IrrigationSteps(headers, bodies) ==
    \/ \E r \in FirstIdle, p \in headers, c \in CropIds, data \in bodies :
          \E edge \in Edges(p) : AddIrrigation(r, p, edge, c, data)
    \/ \E r \in ReqIds : IrrigationUpdate(r)
    \/ \E r \in ReqIds : IrrigationCommit(r)

\* Registration and login.
NextAuth ==
    \/ RegisterSteps(RegisterBodies, Salts)
    \/ \E r \in ReqIds : TxFail(r)
    \/ \E data \in LoginBodies, storeOk \in BOOLEAN : Login(data, storeOk)

SpecAuth == Init /\ [][NextAuth]_vars

\* Farmers, their fields and crops, and concurrent irrigation requests.
\* One field is enough for what is checked here.
Issued == {p \in Honest : p.present}

NextIrrigation ==
    \/ RegisterSteps(GoodRegister({"pw1"}, {"farmer"}), {"kX3f"})
    \/ /\ fields = {}
       /\ \E p \in Issued, data \in GoodField :
             \E edge \in Edges(p) : CreateField(p, edge, data, TRUE)
    \/ \E p \in Issued, data \in GoodCrop :
          \E edge \in Edges(p) : CreateCrop(p, edge, data, TRUE)
    \/ IrrigationSteps(Honest, IrrigationBodies)
    \/ \E r \in ReqIds : TxFail(r)

SpecIrrigation == Init /\ [][NextIrrigation]_vars

\* Fields: creation, listing, and status changes made on the store.
NextFields ==
    \/ RegisterSteps(GoodRegister({"pw1"}, {"farmer"}), {"kX3f"})
    \/ \E p \in Honest, data \in ListBodies, storeOk \in BOOLEAN :
          \E edge \in Edges(p) : CreateField(p, edge, data, storeOk)
    \/ \E p \in Honest, limit \in {"absent", "1"}, storeOk \in BOOLEAN,
          typecast \in Drivers :
          \E edge \in Edges(p) : GetFields(p, edge, limit, storeOk, typecast)
    \/ \E id \in FieldIds, status \in Statuses : SetFieldStatus(id, status)

SpecFields == Init /\ [][NextFields]_vars

\* Listing after creating: two owners, coordinates sent as a list or as text,
\* either driver, while fields change status.
NextListing ==
    \/ RegisterSteps(GoodRegister({"pw1"}, {"farmer"}), {"kX3f"})
    \/ \E p \in Issued, data \in FieldBodies :
          /\ data.field_name # Missing
          /\ data.area_hectares = 1
          /\ Truthy(data.coordinates)
          /\ \E edge \in Edges(p) : CreateField(p, edge, data, TRUE)
    \/ \E p \in Issued, limit \in {"absent", "0", "1", "2"}, typecast \in Drivers :
          \E edge \in Edges(p) : GetFields(p, edge, limit, TRUE, typecast)
    \/ \E id \in FieldIds, status \in {"active", "inactive"} :
          SetFieldStatus(id, status)

SpecListing == Init /\ [][NextListing]_vars

\* Rows of every table, created through the routes and deleted on the store:
\* one farmer, one field at a time, claims that name the first field and crop.
NextIntegrity ==
    \/ RegisterSteps({d \in GoodRegister({"pw1"}, {"farmer"}) : d.email = "a@x.com"},
                     {"kX3f"})
    \/ /\ fields = {}
       /\ \E p \in Issued, data \in GoodField :
             \E edge \in Edges(p) : CreateField(p, edge, data, TRUE)
    \/ \E p \in Issued, data \in GoodCrop :
          \E edge \in Edges(p) : CreateCrop(p, edge, data, TRUE)
    \/ IrrigationSteps(Issued, {d \in GoodIrrigation : d.amount_mm = 1})
    \/ \E p \in Issued, suffix \in Suffixes,
          data \in {d \in ClaimBodies : /\ d.complete
                                        /\ d.severity_level = "mild"
                                        /\ d.field_id = 1
                                        /\ d.crop_id = 1} :
          \E edge \in Edges(p) : CreateClimateClaim(p, edge, data, suffix, TRUE)
    \/ \E id \in UserIds : DeleteUser(id)
    \/ \E id \in FieldIds : DeleteField(id)
    \/ \E id \in CropIds : DeleteCrop(id)

SpecIntegrity == Init /\ [][NextIntegrity]_vars

\* Climate damage claims by users of both roles, over a few days.
NextClaims ==
    \/ RegisterSteps(GoodRegister({"pw1"}, UserTypes), {"kX3f"})
    \/ \E p \in Honest, suffix \in Suffixes, storeOk \in BOOLEAN,
          data \in {d \in ClaimBodies : /\ d.severity_level \in {"mild", "catastrophic"}
                                        /\ d.field_id = NoId
                                        /\ d.crop_id = NoId} :
          \E edge \in Edges(p) : CreateClimateClaim(p, edge, data, suffix, storeOk)
    \/ now < ClaimDays /\ Tick

SpecClaims == Init /\ [][NextClaims]_vars

\* Tokens over time: one user's token, issued at registration, presented
\* intact or altered to protected routes while the clock advances.
NextToken ==
    \/ RegisterSteps({d \in GoodRegister({"pw1"}, UserTypes) : d.email = "a@x.com"},
                     {"kX3f"})
    \/ /\ fields = {}
       /\ \E p \in Presented, data \in GoodField :
             \E edge \in Edges(p) : CreateField(p, edge, data, TRUE)
    \/ \E p \in Presented, typecast \in Drivers :
          \E edge \in Edges(p) : GetFields(p, edge, "absent", TRUE, typecast)
    \/ Tick

SpecToken == Init /\ [][NextToken]_vars

\* One user's token presented over time while the account is deactivated or
\* deleted on the store.
NextStateless ==
    \/ RegisterSteps({d \in GoodRegister({"pw1"}, {"farmer"}) : d.email = "a@x.com"},
                     {"kX3f"})
    \/ /\ fields = {}
       /\ \E p \in Presented, data \in GoodField :
             \E edge \in Edges(p) : CreateField(p, edge, data, TRUE)
    \/ \E p \in Presented, typecast \in Drivers :
          \E edge \in Edges(p) : GetFields(p, edge, "absent", TRUE, typecast)
    \/ \E id \in UserIds : DeactivateUser(id)
    \/ \E id \in UserIds : DeleteUser(id)
    \/ Tick

SpecStateless == Init /\ [][NextStateless]_vars

\* Crops created from bodies that name totals and a stage, irrigated by
\* concurrent requests, among the other operations on the farmer's account.
NextCrops ==
    \/ RegisterSteps({d \in GoodRegister({"pw1"}, {"farmer"}) : d.email = "a@x.com"},
                     {"kX3f"})
    \/ \E data \in {d \in LoginBodies : d.email = "a@x.com" /\ d.user_type = Missing} :
          Login(data, TRUE)
    \/ /\ fields = {}
       /\ \E p \in Issued, data \in GoodField :
             \E edge \in Edges(p) : CreateField(p, edge, data, TRUE)
    \/ \E p \in Issued : \E edge \in Edges(p) : GetFields(p, edge, "absent", TRUE, TRUE)
    \/ \E p \in Issued, storeOk \in BOOLEAN,
          data \in {d \in CropBodies : d.field_id = 1 /\ d.sowing_date # Missing} :
          \E edge \in Edges(p) : CreateCrop(p, edge, data, storeOk)
    \/ IrrigationSteps(Issued, {d \in GoodIrrigation : d.amount_mm = 1})
    \/ \E r \in ReqIds : TxFail(r)
    \/ \E p \in Issued, data \in {d \in ClaimBodies : /\ d.complete
                                                       /\ d.severity_level = "mild"
                                                       /\ d.field_id = NoId
                                                       /\ d.crop_id = 1} :
          \E edge \in Edges(p) : CreateClimateClaim(p, edge, data, "1A2B3C4D", TRUE)
    \/ \E id \in FieldIds : SetFieldStatus(id, "inactive")
    \/ \E id \in CropIds : DeleteCrop(id)

SpecCrops == Init /\ [][NextCrops]_vars

\* Logins against known, unknown and deactivated accounts.
NextLogin ==
    \/ RegisterSteps(GoodRegister({"pw1"}, {"farmer"}), {"kX3f"})
    \/ \E data \in LoginBodies, storeOk \in BOOLEAN : Login(data, storeOk)
    \/ \E id \in UserIds : DeactivateUser(id)

SpecLogin == Init /\ [][NextLogin]_vars

\* Failures: rejected tokens, refused bodies, store errors, unrouted
\* requests, with the server in either mode.
NextErrors ==
    \/ RegisterSteps({d \in GoodRegister({"pw1"}, {"farmer"}) : d.email = "a@x.com"},
                     {"kX3f"})
    \/ \E p \in Honest, data \in ListBodies, storeOk \in BOOLEAN :
          \E edge \in Edges(p) : CreateField(p, edge, data, storeOk)
    \/ \E p \in Honest, limit \in {"absent", "abc", "-1"}, storeOk \in BOOLEAN,
          typecast \in Drivers :
          \E edge \in Edges(p) : GetFields(p, edge, limit, storeOk, typecast)
    \/ HandleException
    \/ AppRun
    \/ Tick

SpecErrors == Init /\ [][NextErrors]_vars

\* The connection pool under concurrent units of work.
NextPool ==
    \/ GetConn
    \/ \E ok \in BOOLEAN : Connected(ok)
    \/ \E raised \in BOOLEAN : PutConn(raised)

SpecPool == Init /\ [][NextPool]_vars

\* Units of work whose getconn calls follow one another (their bodies and
\* their putconn calls overlap freely).
Serial(u) == \A v \in Units \ {u} : conns.unit[v].pc \notin Acquiring

NextWork ==
    \E u \in Units :
        \/ Serial(u) /\ KeyRead(u)
        \/ UnitSteps(u, BOOLEAN, BOOLEAN, RaiseKinds)

SpecWork == Init /\ [][NextWork]_vars

\* Units of work in the threads of the server the module starts: every step
\* of getconn and putconn interleaves with the steps of the others.  The
\* connections open, the bodies write and fail on a rejected statement.
NextThreads ==
    \E u \in Units :
        \/ KeyRead(u)
        \/ UnitSteps(u, {TRUE}, {TRUE}, {"statement"})

SpecThreads == Init /\ [][NextThreads]_vars

\* Start-up, schema initialization and the health probe while the store
\* comes and goes.
NextStartup ==
    \/ InitPostgresqlDatabase
    \/ HealthCheck
    \/ StoreDown
    \/ StoreUp
    \/ Tick

SpecStartup == Init /\ [][NextStartup]_vars

\* The public scheme search, by callers with and without a token.
NextSchemes ==
    \/ RegisterSteps({d \in GoodRegister({"pw1"}, {"farmer"}) : d.email = "a@x.com"},
                     {"kX3f"})
    \/ \E p \in Honest, search \in Searches, max_amount \in MaxAmountArgs :
          GetGovernmentSchemes(p, search, max_amount)

SpecSchemes == Init /\ [][NextSchemes]_vars

\* The whole service.
Next ==
    \/ RegisterSteps(RegisterBodies, Salts)
    \/ \E data \in LoginBodies, storeOk \in BOOLEAN : Login(data, storeOk)
    \/ \E p \in Presented, data \in FieldBodies, storeOk \in BOOLEAN :
          \E edge \in Edges(p) : CreateField(p, edge, data, storeOk)
    \/ \E p \in Presented, limit \in LimitArgs, storeOk \in BOOLEAN,
          typecast \in Drivers :
          \E edge \in Edges(p) : GetFields(p, edge, limit, storeOk, typecast)
    \/ \E p \in Presented, data \in CropBodies, storeOk \in BOOLEAN :
          \E edge \in Edges(p) : CreateCrop(p, edge, data, storeOk)
    \/ IrrigationSteps(Presented, IrrigationBodies)
    \/ \E p \in Presented, data \in ClaimBodies, suffix \in Suffixes,
          storeOk \in BOOLEAN :
          \E edge \in Edges(p) : CreateClimateClaim(p, edge, data, suffix, storeOk)
    \/ \E r \in ReqIds : TxFail(r)
    \/ NextPool
    \/ NextStartup
    \/ HandleException
    \/ AppRun
    \/ \E p \in Presented, search \in Searches, max_amount \in MaxAmountArgs :
          GetGovernmentSchemes(p, search, max_amount)
    \/ \E id \in UserIds : DeleteUser(id)
    \/ \E id \in FieldIds : DeleteField(id)
    \/ \E id \in CropIds : DeleteCrop(id)
    \/ \E id \in FieldIds, status \in Statuses : SetFieldStatus(id, status)
    \/ \E id \in UserIds : DeactivateUser(id)
    \/ NextThreads
    \/ Tick

Spec == Init /\ [][Next]_vars

\* ================================================================ claims
IrrigationOf(crop_id) == {i \in irrigation : i.crop_id = crop_id}

\* C1: whatever the interleaving of add_irrigation requests on a crop, its
\* total_water_used is 0 plus the sum of the amounts of the requests that
\* were answered with success: no increment is lost, none is applied twice.
C1_NoLostUpdate ==
    \A c \in crops : c.total_water_used = acked[c.id]

\* Two requests on the same crop are in flight at once: one holds the row
\* lock after its UPDATE, the other has inserted and waits for the lock.
C1_Witness ==
    \E r, q \in Open("irrigation") :
        /\ reqs[r].pc = "updated"
        /\ reqs[q].pc = "inserted"
        /\ reqs[q].irow.crop_id = reqs[r].irow.crop_id

\* C2: add irrigation is all-or-nothing.  In every committed state a crop's
\* total is the sum of the amounts of its committed irrigation records (a
\* record is there exactly when its amount is in the total), every record
\* belongs to a crop, and a request answered with a failure has left the
\* store as it was.
AllOrNothing ==
    /\ \A c \in crops : c.total_water_used = SumAmounts(IrrigationOf(c.id))
    /\ \A i \in irrigation : CropExists(i.crop_id)

FailureWritesNothing ==
    (resp' # resp /\ resp'.op = "add_irrigation" /\ resp'.status # 200)
        => (store' = store /\ resp'.status >= 400)

C2_AllOrNothing == []AllOrNothing /\ [][FailureWritesNothing]_vars

\* A request failed after its INSERT was issued (its crop exists, so the
\* failure came later), on a crop that already has a committed record.
C2_Witness ==
    /\ resp.op = "add_irrigation"
    /\ resp.code = "ADD_IRRIGATION_FAILED"
    /\ CropExists(resp.ref)
    /\ IrrigationOf(resp.ref) # {}

\* C3: a request to add irrigation to a crop, made with a valid token of a
\* user who does not own the crop, fails.
C3_NonOwnerRejected ==
    (resp.op = "add_irrigation" /\ resp.status = 200)
        => CropById(resp.ref).user_id = resp.caller

\* C4: every crop's owner is the owner of the field it belongs to.
C4_CropOnOwnField ==
    \A c \in crops : FieldById(c.field_id).user_id = c.user_id

\* C5: a successful field listing holds no field of another owner and no
\* field whose status is not 'active'.
C5_ListOwnActive ==
    (resp.op = "get_fields" /\ resp.status = 200)
        => \A k \in 1..Len(resp.items) :
               /\ resp.items[k].user_id = resp.caller
               /\ resp.items[k].status = "active"

\* A listing that returned a field while the store held another field it
\* had to leave out (of another owner, or not active).
C5_Witness ==
    /\ resp.op = "get_fields"
    /\ resp.status = 200
    /\ Len(resp.items) = 1
    /\ \E f \in fields : f.id # resp.items[1].id
                           /\ (f.user_id # resp.caller \/ f.status # "active")

\* C6: there is at most one user row per email, and a register request for
\* an email that already has a row (at once, or after waiting for the
\* concurrent registration of the same email to commit) is answered
\* EMAIL_EXISTS and adds no row.  The requests that are refused before the
\* INSERT (a member missing, a user type outside the two) never reach the
\* constraint.
UniqueEmail == \A u, v \in users : u.email = v.email => u = v

DuplicateRejected ==
    (/\ resp' # resp
     /\ resp'.op = "register"
     /\ \E u \in users : u.email = resp'.email
     /\ resp'.code \notin {"MISSING_FIELD", "INVALID_USER_TYPE"})
        => (resp'.code = "EMAIL_EXISTS" /\ resp'.status = 409 /\ users' = users)

C6_OneRowPerEmail == []UniqueEmail /\ [][DuplicateRejected]_vars

\* A duplicate was refused while both emails have their row.
C6_Witness ==
    /\ resp.op = "register"
    /\ resp.code = "EMAIL_EXISTS"
    /\ Cardinality(users) = MaxUsers
    /\ \E u \in users : u.email = resp.email

\* C7: once a registration was acknowledged, a login with its email and
\* password that the store answers finds the user: the identity and the role
\* in the response are those the registration returned.
LoginFindsRegistered ==
    (resp' # resp /\ resp'.op = "login" /\ resp'.code # "LOGIN_FAILED")
        => \A e \in registered :
              (e.email = resp'.email /\ e.password = resp'.password)
                  => /\ resp'.code \in {"OK", "USER_TYPE_MISMATCH"}
                     /\ resp'.target = e.id
                     /\ resp'.role = e.user_type

C7_LoginAfterRegister == [][LoginFindsRegistered]_vars

\* Two users with distinct emails are registered and one of them logged in.
C7_Witness ==
    /\ resp.op = "login"
    /\ resp.code = "OK"
    /\ Cardinality(registered) = 2
    /\ \E e \in registered : /\ e.email = resp.email
                             /\ e.password = resp.password
                             /\ e.id = resp.target

\* C8: a token issued at time t expires at t + 7 days; presented as issued
\* it is accepted, with the identity and role it was issued for, at every
\* time before its expiry, and refused with TOKEN_EXPIRED at every time after
\* it.
Rejections == {"NO_TOKEN", "TOKEN_EXPIRED", "INVALID_TOKEN"}

C8_TokenLifetime ==
    /\ \A t \in tokens : t.exp = t.iat + TokenDays
    /\ resp.issued # NoToken =>
          /\ resp.issued.iat = resp.at
          /\ resp.issued.exp = resp.at + TokenDays
          /\ resp.issued.user_id = resp.target
          /\ resp.issued.user_type = resp.role
    /\ (resp.present /\ resp.mode = "intact" /\ resp.tok # NoToken) =>
          /\ resp.when = "before" =>
                /\ resp.code \notin Rejections
                /\ resp.caller = resp.tok.user_id
                /\ resp.role = resp.tok.user_type
          /\ resp.when = "after" =>
                /\ resp.code = "TOKEN_EXPIRED"
                /\ resp.status = 401

\* A token that was accepted (a field was created with it) is refused after
\* its expiry.
C8_Witness ==
    /\ resp.present
    /\ resp.mode = "intact"
    /\ resp.when = "after"
    /\ resp.code = "TOKEN_EXPIRED"
    /\ \E f \in fields : f.user_id = resp.tok.user_id

\* C9: a protected route answers NO_TOKEN when no token was sent,
\* TOKEN_EXPIRED when the token sent is past its expiry, and INVALID_TOKEN
\* when the token sent is a valid token with one byte altered; a rejected
\* request has not run its handler.
C9_ThreeRejections ==
    resp.op \notin {"none", "register", "login"} =>
        /\ ~resp.present => (resp.code = "NO_TOKEN" /\ resp.status = 401)
        /\ (resp.present /\ resp.mode # "intact") =>
              (resp.code = "INVALID_TOKEN" /\ resp.status = 401)
        /\ (resp.present /\ resp.mode = "intact" /\ resp.when = "after") =>
              (resp.code = "TOKEN_EXPIRED" /\ resp.status = 401)
        /\ resp.code \in Rejections =>
              (resp.caller = NoId /\ resp.target = NoId /\ resp.items = <<>>)

\* C10: a claim request of a caller whose role is not farmer is answered
\* UNAUTHORIZED (403) whatever its body, and adds no claim row; every claim
\* row belongs to a farmer.
OnlyFarmersClaim ==
    /\ (resp.op = "create_claim" /\ resp.caller # NoId /\ resp.role # "farmer")
          => (resp.code = "UNAUTHORIZED" /\ resp.status = 403)
    /\ \A c \in claims : UserById(c.user_id).user_type = "farmer"

RefusalAddsNoClaim ==
    (resp' # resp /\ resp'.code = "UNAUTHORIZED") => claims' = claims

C10_FarmerOnly == []OnlyFarmersClaim /\ [][RefusalAddsNoClaim]_vars

\* A government user was refused while a farmer's claim is in the store.
C10_Witness ==
    /\ resp.op = "create_claim"
    /\ resp.code = "UNAUTHORIZED"
    /\ resp.role = "government"
    /\ claims # {}

\* C11: no two claims share a reference code; every claim's code is the
\* prefix CLM, then the date the claim was created on, then a random suffix;
\* a request whose generated code is already taken is answered with a
\* failure and adds no claim.
UniqueRefs ==
    \A c, d \in claims :
        c.claim_reference_number = d.claim_reference_number => c = d

RefComposed ==
    \A c \in claims :
        \E suffix \in Suffixes :
            c.claim_reference_number = <<"CLM", c.created_at, suffix>>

CollisionAddsNoClaim ==
    (/\ resp' # resp
     /\ resp'.op = "create_claim"
     /\ resp'.claim_ref # <<>>
     /\ \E c \in claims : c.claim_reference_number = resp'.claim_ref
     /\ resp'.code \notin Rejections \cup {"UNAUTHORIZED", "MISSING_FIELD"})
        => (resp'.status = 500 /\ claims' = claims)

C11_UniqueRefs == [](UniqueRefs /\ RefComposed) /\ [][CollisionAddsNoClaim]_vars

\* Two claims are stored, and a later request, complete and with a valid
\* severity, failed on a code that one of them carries.
C11_Witness ==
    /\ Cardinality(claims) = 2
    /\ resp.op = "create_claim"
    /\ resp.code = "CREATE_CLAIM_FAILED"
    /\ \E c \in claims : c.claim_reference_number = resp.claim_ref

\* C12: the connections checked out are those of the units of work that hold
\* one, and they are never more than the configured maximum.
C12_PoolBalanced ==
    /\ pool.used = pool.held
    /\ pool.used <= maxconn

\* C13: running the schema initialization against a store it has already
\* initialized (and that answers) succeeds and leaves the schema as the first
\* run left it.
C13_InitIdempotent ==
    (resp.op = "init_database" /\ resp.up)
        => (resp.code = "OK" /\ schema = SchemaSql(EmptySchema).schema)

\* C14: a health check answers 'healthy' only if the store answers at the
\* time of the request.
C14_HealthProbes ==
    (resp.op = "health_check" /\ resp.status = 200) => resp.up

\* C15: every stored field has an area greater than zero, and a request to
\* create a field with an area of zero or less is answered with a validation
\* error (4xx).
C15_FieldAreaPositive ==
    /\ \A f \in fields : f.area_hectares > 0
    /\ (resp.op = "create_field" /\ resp.status = 200)
          => FieldById(resp.target).area_hectares > 0

\* C16: no crop's total_water_used is ever negative, and no step decreases
\* it: a request with an amount of zero or less writes nothing.
TotalNeverDecreases ==
    \A c \in crops : \A d \in crops' :
        d.id = c.id => d.total_water_used >= c.total_water_used

C16_AmountPositive ==
    /\ [](\A c \in crops : c.total_water_used >= 0)
    /\ [](\A i \in irrigation : i.amount_mm > 0)
    /\ [][TotalNeverDecreases]_vars

\* C17: a request that reaches the handler with an invalid value in its body
\* (a claim severity outside the four levels) is answered with a 4xx
\* validation error, never with a 5xx, and writes nothing.
C17_ValidationFirst ==
    (resp.invalid /\ resp.code \notin Rejections \cup {"UNAUTHORIZED"})
        => (resp.status \in 400..499 /\ resp.target = NoId)

\* C18: a login that the store answers, for an email no account has, for a
\* deactivated account, or with a password other than the account's, gets
\* one and the same answer: INVALID_CREDENTIALS (401), carrying no identity
\* and no token; it changes neither the users nor the tokens issued.
UnknownEmail(email) == ~\E u \in users : u.email = email

InactiveAccount(email) == \E u \in users : u.email = email /\ ~u.is_active

WrongPassword(email, password) ==
    /\ \E u \in users : u.email = email /\ u.is_active
    /\ ~\E e \in registered : e.email = email /\ e.password = password

LoginRefusedAlike ==
    (/\ resp' # resp
     /\ resp'.op = "login"
     /\ resp'.email # Missing
     /\ resp'.password # Missing
     /\ resp'.code # "LOGIN_FAILED"
     /\ \/ UnknownEmail(resp'.email)
        \/ InactiveAccount(resp'.email)
        \/ WrongPassword(resp'.email, resp'.password))
        => /\ resp'.code = "INVALID_CREDENTIALS"
           /\ resp'.status = 401
           /\ resp'.target = NoId
           /\ resp'.role = Missing
           /\ resp'.issued = NoToken
           /\ users' = users
           /\ tokens' = tokens

C19_ErrorEnvelope ==
    resp.status >= 400 => {"code", "message", "timestamp"} \subseteq resp.error

\* C20: outside development mode, the message of a failure caused by the
\* store does not contain the store's error text.
InMessage(text) == \E k \in 1..Len(resp.message) : resp.message[k] = text

C20_NoRawStoreText ==
    (resp.status >= 500 /\ ~debug) => ~InMessage(StoreErrorText)

\* C21: the scheme search answers without a token, and for every search
\* string every scheme it returns has the string in its name or in its
\* description, letter case apart; with an empty string it returns its whole
\* list.
SameLetter(a, b) ==
    \/ a = b
    \/ \E k \in DOMAIN UpperCase :
          {a, b} = {UpperCase[k], LowerCase[k]}

ContainsAnyCase(text, s) ==
    \E k \in 0..(Len(text) - Len(s)) :
        \A j \in 1..Len(s) : SameLetter(text[k + j], s[j])

C21_SearchOnlyMatches ==
    resp.op = "get_schemes" =>
        /\ resp.status = 200
        /\ \A k \in 1..Len(resp.items) :
              \/ ContainsAnyCase(resp.items[k].name, resp.search)
              \/ ContainsAnyCase(resp.items[k].description, resp.search)
        /\ resp.search = <<>> => resp.items = MockSchemes

\* A search in capitals, sent without a token, returned some schemes of the
\* list and left another out.
C21_Witness ==
    /\ resp.op = "get_schemes"
    /\ ~resp.present
    /\ resp.status = 200
    /\ \E k \in 1..Len(resp.search) : resp.search[k] # LowerChar(resp.search[k])
    /\ Len(resp.items) > 0
    /\ Len(resp.items) < Len(MockSchemes)

\* C22: the scheme search works over the seeded schemes: with a maximum
\* amount M it returns no scheme whose maximum claim amount exceeds M, and it
\* returns every seeded active scheme that matches the search text and the
\* amount.
Returned == {resp.items[k].id : k \in 1..Len(resp.items)}

C22_SeededAndFiltered ==
    resp.op = "get_schemes" =>
        /\ resp.max_amount.given =>
              \A id \in Returned :
                  SeedRow(id).max_claim_amount <= resp.max_amount.value
        /\ \A code \in schema.schemes :
              (/\ SeedRow(code).is_active
               /\ \/ ContainsAnyCase(SeedRow(code).scheme_name, resp.search)
                  \/ ContainsAnyCase(SeedRow(code).description, resp.search)
               /\ resp.max_amount.given =>
                     SeedRow(code).max_claim_amount <= resp.max_amount.value)
                  => code \in Returned

\* C23: a successful listing for owner O with limit L (50 when none is given)
\* holds exactly the min(L, n) most recently created of O's n active fields,
\* the most recent first, and so never more than L.
OwnActive(owner) ==
    {f \in fields : f.user_id = owner /\ f.status = "active"}

LimitGiven(limit) ==
    CASE limit = "absent" -> 50
      [] limit = "0" -> 0
      [] limit = "1" -> 1
      [] limit = "2" -> 2

ListedNewestFirst ==
    (resp' # resp /\ resp'.op = "get_fields" /\ resp'.status = 200) =>
        LET items == resp'.items
            own   == OwnActive(resp'.caller)
            n     == Cardinality(own)
            L     == LimitGiven(resp'.limit)
            ids   == {items[k].id : k \in 1..Len(items)} IN
        /\ Len(items) <= L
        /\ Len(items) = IF L < n THEN L ELSE n
        /\ ids \subseteq {f.id : f \in own}
        /\ Cardinality(ids) = Len(items)
        /\ \A k \in 1..(Len(items) - 1) :
              items[k].created_at > items[k + 1].created_at
        /\ \A f \in own :
              f.id \notin ids =>
                  \A k \in 1..Len(items) : f.created_at < items[k].created_at

C23_ListNewestCapped == [][ListedNewestFirst]_vars

\* A listing with limit 1 for an owner with two active fields returned the
\* later one.
C23_Witness ==
    /\ resp.op = "get_fields"
    /\ resp.status = 200
    /\ resp.limit = "1"
    /\ Len(resp.items) = 1
    /\ Cardinality(OwnActive(resp.caller)) = 2
    /\ \A f \in OwnActive(resp.caller) : f.created_at <= resp.items[1].created_at

\* C29: when a field was created and the same owner lists their fields next
\* (default limit, the store answering), the listing succeeds and holds the
\* field under the id create returned, with the coordinates sent to create.
StoreAnswers(r) == \A k \in 1..Len(r.message) : r.message[k] # StoreErrorText

ListAfterCreate ==
    (/\ resp.op = "create_field"
     /\ resp.status = 200
     /\ resp'.op = "get_fields"
     /\ resp'.caller = resp.caller
     /\ resp'.limit = "absent"
     /\ StoreAnswers(resp'))
        => /\ resp'.status = 200
           /\ \E k \in 1..Len(resp'.items) :
                 /\ resp'.items[k].id = resp.target
                 /\ resp'.items[k].coordinates = resp.coordinates

C29_CreateListRoundTrip == [][ListAfterCreate]_vars

\* C24: no row references a missing parent, and a delete follows the
\* schema's rules: with a user go the user's fields, crops and claims; with a
\* field go its crops; with a crop go its irrigation records; a claim of a
\* remaining user that referenced a removed field or crop stays, with that
\* reference null and nothing else changed.
NoOrphans ==
    /\ \A f \in fields : \E u \in users : u.id = f.user_id
    /\ \A c \in crops : /\ \E u \in users : u.id = c.user_id
                        /\ \E f \in fields : f.id = c.field_id
    /\ \A i \in irrigation : \E c \in crops : c.id = i.crop_id
    /\ \A cl \in claims :
          /\ \E u \in users : u.id = cl.user_id
          /\ cl.field_id # NoId => \E f \in fields : f.id = cl.field_id
          /\ cl.crop_id # NoId => \E c \in crops : c.id = cl.crop_id

DeleteRules ==
    LET goneU == {u.id : u \in users} \ {u.id : u \in users'}
        goneF == {f.id : f \in fields} \ {f.id : f \in fields'}
        goneC == {c.id : c \in crops} \ {c.id : c \in crops'} IN
    /\ \A f \in fields : f.user_id \in goneU => f.id \in goneF
    /\ \A c \in crops : (c.user_id \in goneU \/ c.field_id \in goneF) => c.id \in goneC
    /\ \A i \in irrigation : i.crop_id \in goneC => i \notin irrigation'
    /\ \A cl \in claims :
          IF cl.user_id \in goneU
          THEN \A d \in claims' : d.id # cl.id
          ELSE [cl EXCEPT !.field_id = IF @ \in goneF THEN NoId ELSE @,
                          !.crop_id = IF @ \in goneC THEN NoId ELSE @] \in claims'

C24_ReferentialIntegrity == []NoOrphans /\ [][DeleteRules]_vars

\* A claim has lost its reference to a field that was deleted while the
\* claim's owner remains.
C24_Witness ==
    \E cl \in claims :
        /\ cl.field_id = NoId
        /\ cl.claim_reference_number = resp.claim_ref
        /\ resp.op = "create_claim"
        /\ resp.status = 200
        /\ resp.field_id # NoId
        /\ fields = {}

\* C25: the verdict of token validation (the rejection, or the identity and
\* role handed to the handler) depends on the header and on the time only:
\* two requests to protected routes that carry the same header on the same
\* side of the token's expiry get the same verdict, whatever happened to the
\* store in between.  At the expiry instant itself the verdict is that of the
\* library version in use.
ProtectedOps ==
    {"create_field", "get_fields", "create_crop", "add_irrigation", "create_claim"}

Verdict(r) ==
    <<IF r.code \in Rejections THEN r.code ELSE "accepted", r.caller, r.role>>

SameVerdict ==
    (/\ resp.op \in ProtectedOps
     /\ resp'.op \in ProtectedOps
     /\ resp'.present = resp.present
     /\ resp'.mode = resp.mode
     /\ resp'.tok = resp.tok
     /\ resp'.when = resp.when
     /\ resp.when # "at")
        => Verdict(resp') = Verdict(resp)

C25_StatelessValidation == [][SameVerdict]_vars

\* A token was accepted, with its identity, although its user is deactivated
\* or gone.
C25_Witness ==
    /\ resp.op \in ProtectedOps
    /\ resp.present
    /\ resp.code \notin Rejections
    /\ resp.caller = resp.tok.user_id
    /\ resp.caller # NoId
    /\ ~\E u \in users : u.id = resp.caller /\ u.is_active

\* C26: a crop enters the store with total_water_used and the three
\* fertilizer totals at zero and current_stage 'seeded', whatever its request
\* body named; after that a crop's total_water_used changes only in the step
\* that answers an add-irrigation request on that crop with success.
CreatedAtZero ==
    \A c \in crops' :
        (\A d \in crops : d.id # c.id) =>
            /\ c.total_water_used = 0
            /\ c.total_nitrogen_applied = 0
            /\ c.total_phosphorus_applied = 0
            /\ c.total_potassium_applied = 0
            /\ c.current_stage = "seeded"

OnlyIrrigationWritesTotal ==
    \A c \in crops : \A d \in crops' :
        (d.id = c.id /\ d.total_water_used # c.total_water_used) =>
            /\ resp'.op = "add_irrigation"
            /\ resp'.status = 200
            /\ resp'.ref = c.id
            /\ d = [c EXCEPT !.total_water_used = d.total_water_used]

C26_TotalsStartAtZero == [][CreatedAtZero /\ OnlyIrrigationWritesTotal]_vars

\* A crop was created from a body that named a total or a stage, and is
\* stored with the defaults.
C26_Witness ==
    /\ resp.op = "create_crop"
    /\ resp.status = 200
    /\ resp.extra
    /\ \E c \in crops : /\ c.id = resp.target
                        /\ c.total_water_used = 0
                        /\ c.current_stage = "seeded"

\* C27: a login answered INVALID_CREDENTIALS or USER_TYPE_MISMATCH carries no
\* token and leaves every user row as it was; a user's last_login changes
\* only in the step of a login that is answered with a token.
RejectedLoginWritesNothing ==
    /\ (resp' # resp /\ resp'.op = "login"
        /\ resp'.code \in {"INVALID_CREDENTIALS", "USER_TYPE_MISMATCH"})
          => (resp'.issued = NoToken /\ users' = users)
    /\ \A u \in users : \A v \in users' :
          (v.id = u.id /\ v.last_login # u.last_login)
              => (resp'.op = "login" /\ resp'.code = "OK" /\ resp'.issued # NoToken)

C27_RejectedLoginNoWrite == [][RejectedLoginWritesNothing]_vars

\* C28: a unit of work that raised after issuing writes hands its connection
\* back with nothing pending: the connections in the pool are idle and
\* carry no writes, no write of a unit that raised is ever durable, and no
\* unit fails on transaction state that an earlier one left behind.
PooledClean ==
    \A i \in 1..Len(conns.pooled) :
        conns.tx[conns.pooled[i]] = [status |-> "idle", writes |-> {}]

C28_FailedWorkLeavesNothing ==
    /\ PooledClean
    /\ \A u \in Units :
          /\ conns.unit[u].outcome = "raised" => u \notin conns.durable
          /\ conns.unit[u].outcome # "poisoned"

\* A unit raised after a write and returned its connection; a later unit
\* got the same connection from the pool, wrote and committed.
C28_Witness ==
    \E u, v \in Units :
        /\ conns.unit[u].outcome = "raised" /\ conns.unit[u].wrote
        /\ conns.unit[u].pc = "done"
        /\ conns.unit[v].conn = conns.unit[u].conn
        /\ conns.unit[v].key > conns.unit[u].key
        /\ conns.unit[v].outcome = "ok" /\ v \in conns.durable

\* C30: under concurrently running requests a connection is held by at most
\* one unit of work at a time, a held connection is not in the pool, and
\* the pool knows every held connection by the key of its holder.
HeldBy(c) == {u \in Units : conns.unit[u].pc \in Holding /\ conns.unit[u].conn = c}

C30_OneHolderPerConnection ==
    /\ \A c \in ConnIds : Cardinality(HeldBy(c)) <= 1
    /\ \A u \in Units :
          conns.unit[u].pc \in Holding =>
              /\ \A i \in 1..Len(conns.pooled) : conns.pooled[i] # conns.unit[u].conn
              /\ [key |-> conns.unit[u].key, conn |-> conns.unit[u].conn] \in conns.used

====
